---- MODULE Spec2Model ----
(***************************************************************************)
(* Model of gw_eccentricity/eccDefinition.py: one eccDefinition instance,  *)
(* its construction and its measure_ecc calls.                             *)
(*                                                                         *)
(* Numeric conventions.  Times are integers, the sample grid is            *)
(* t[i] = t[0] + TStep * i, so reference times between samples and         *)
(* midpoints of extrema are representable.  phase22 is an integer array.   *)
(* Frequencies (omega22, its interpolants and averages) are integers in    *)
(* one common unit; a reference frequency f is carried as 2*pi*f in that   *)
(* unit, so the factor 2*pi of the source is a choice of unit.  The        *)
(* library spline InterpolatedUnivariateSpline is represented by the       *)
(* piecewise linear interpolant through the same knots; it keeps the       *)
(* degree k it was asked for, cannot be built through k knots or fewer,    *)
(* and raises on extrapolation (ext=2).  An eccentricity value is          *)
(* represented by the reduced ratio omega22_pericenter : omega22_apocenter *)
(* it is an injective function of.                                         *)
(***************************************************************************)
EXTENDS Integers, Sequences, FiniteSets, TLC

VARIABLES dataDict, extra_kwargs, self, call, result, ncalls

vars == <<dataDict, extra_kwargs, self, call, result, ncalls>>

(***************************************************************************)
(* Bounds of the model.                                                    *)
(***************************************************************************)
NSamples == 8
MaxExtrema == 4
MaxRefLen == 2
MaxCalls == 2

(***************************************************************************)
(* Units.                                                                  *)
(***************************************************************************)
TStep == 2
PiU == 4

(***************************************************************************)
(* numpy helpers.                                                          *)
(***************************************************************************)
Abs(x) == IF x < 0 THEN -x ELSE x

Min2(a, b) == IF a < b THEN a ELSE b

Max2(a, b) == IF a > b THEN a ELSE b

SeqMin(q) == CHOOSE x \in {q[i] : i \in 1..Len(q)} :
                \A j \in 1..Len(q) : x <= q[j]

SeqMax(q) == CHOOSE x \in {q[i] : i \in 1..Len(q)} :
                \A j \in 1..Len(q) : x >= q[j]

\* np.argmin: first (0-based) index of the least element
ArgMin(q) == CHOOSE i \in 0..(Len(q) - 1) :
                /\ \A j \in 1..Len(q) : q[i + 1] <= q[j]
                /\ \A j \in 1..i : q[j] > q[i + 1]

RECURSIVE GCD(_, _)
GCD(a, b) == IF b = 0 THEN a ELSE GCD(b, a % b)

Last(q) == q[Len(q)]

(***************************************************************************)
(* The signal held by the instance.                                        *)
(***************************************************************************)
Idx == 0..(NSamples - 1)

\* self.t, the uniform time array of dataDict["t"]: element i
t(d, i) == d.t0 + TStep * i

TimeArray(d) == [i \in 1..NSamples |-> t(d, i - 1)]

\* self.phase22 for the signal profiles the model draws dataDict from:
\* a constant-frequency signal, a chirp, a chirp whose phase is ahead at one
\* sample in the middle, and a chirp whose phase advances unevenly within
\* each orbit
PhaseProfile(p) ==
    [i \in 1..NSamples |->
        IF p = "linear" THEN 2 * PiU * (i - 1)
        ELSE IF p = "chirp" THEN 2 * PiU * (i - 1) + (i - 1) * (i - 1)
        ELSE IF p = "uneven"
        THEN 2 * PiU * (i - 1) + (i - 1) * (i - 1)
                 + (IF i - 1 = NSamples \div 2 THEN 3 * PiU ELSE 0)
        ELSE 2 * PiU * (i - 1) + (i - 1) * (i - 1) + 3 * ((i - 1) % 2)]

phase22(d, i) == PhaseProfile(d.profile)[i + 1]

\* self.omega22 in units of 1 / (12 * dt): fourth order centred difference
\* of phase22, second order at the two samples next to each edge
omega22(d, i) ==
    IF i = 0 THEN 6 * (-3 * phase22(d, 0) + 4 * phase22(d, 1) - phase22(d, 2))
    ELSE IF i = NSamples - 1
        THEN 6 * (3 * phase22(d, i) - 4 * phase22(d, i - 1) + phase22(d, i - 2))
    ELSE IF i = 1 \/ i = NSamples - 2
        THEN 6 * (phase22(d, i + 1) - phase22(d, i - 1))
    ELSE - phase22(d, i + 2) + 8 * phase22(d, i + 1)
         - 8 * phase22(d, i - 1) + phase22(d, i - 2)

\* omega22 of the zero-eccentricity companion, on the same grid and with
\* the same merger time as the primary signal
omega22_zeroecc(d, i) == omega22([d EXCEPT !.profile = "chirp"], i)

(***************************************************************************)
(* Exceptions and warnings.  An operation works on the record s of the     *)
(* instance attributes; s.exc names the exception raised so far ("" for    *)
(* none), after which nothing more is executed.                            *)
(***************************************************************************)
NoOrbits == -1

ErrTooFewMaxima == "Sufficient number of maxima are not found"
ErrTooFewMinima == "Sufficient number of minima are not found"
ErrTooFewApocenters == "Sufficient number of apocenters are not found"
ErrExactlyOne == "Exactly one of tref_in and fref_in should be specified"
ErrLaterThanTmax == "tref_in is later than tmax"
ErrEarlierThanTmin == "tref_in is earlier than tmin"
ErrTrefOutEmpty == "tref_out is empty"
ErrLength == "Length of fref_out is different from Length of tref_out"
ErrTwoPericenters == "Reference time must be within two pericenters"
ErrFrefEarlier == "fref_in is earlier than minimum available frequency"
ErrFrefLater == "fref_in is later than maximum available frequency"
ErrFrefOutEmpty == "fref_out is empty"
ErrMeanMotionPeri == "Omega22 average at pericenters are not strictly monotonically increaing"
ErrMeanMotionApo == "Omega22 average at apocenters are not strictly monotonically increasing"
ErrNoMethod == "Omega22 averaging method does not exist"
ErrExtrapolate == "ValueError: spline evaluated outside its knots (ext=2)"
ErrNoZeroecc == "AttributeError: t_zeroecc_shifted"
ErrFoundLater == "Found times later than or equal to tmax"
ErrFoundEarlier == "Found times earlier than tmin"
ErrIndex == "IndexError"
ErrTypeDerivative == "TypeError: derivative_of_eccentricity() missing argument t"
ErrKeyMethod == "KeyError: omega22_averaging_method"
ErrNotIncreasing == "ValueError: x must be strictly increasing"
ErrTooFewPoints == "dfitpack.error: (m>k) failed for hidden m"

Raise(s, e) == [s EXCEPT !.exc = e]

Warn(s, w) == [s EXCEPT !.warns = @ \cup {w}]

Ok(s) == s.exc = ""

(***************************************************************************)
(* Splines.                                                                *)
(***************************************************************************)
\* InterpolatedUnivariateSpline(x, y, k=k)
Spline(x, y, k) == [x |-> x, y |-> y, k |-> k]

NoSpline == Spline(<<>>, <<>>, 0)

\* ext=2: evaluation outside [x[0], x[-1]] raises ValueError
InRange(sp, tt) == Len(sp.x) >= 1 /\ sp.x[1] <= tt /\ tt <= Last(sp.x)

AllInRange(sp, q) == \A j \in 1..Len(q) : InRange(sp, q[j])

Eval(sp, tt) ==
    IF \E j \in 1..Len(sp.x) : sp.x[j] = tt
    THEN sp.y[CHOOSE j \in 1..Len(sp.x) : sp.x[j] = tt]
    ELSE LET j == CHOOSE k \in 1..(Len(sp.x) - 1) :
                      sp.x[k] < tt /\ tt < sp.x[k + 1]
         IN (sp.y[j] * (sp.x[j + 1] - tt) + sp.y[j + 1] * (tt - sp.x[j]))
                \div (sp.x[j + 1] - sp.x[j])

EvalAll(sp, q) == [j \in 1..Len(q) |-> Eval(sp, q[j])]

StrictlyIncreasing(q) == \A j \in 1..(Len(q) - 1) : q[j] < q[j + 1]

\* the exception, if any, of building sp: the knots must increase and be
\* more than the degree
BuildExc(sp) ==
    IF ~StrictlyIncreasing(sp.x) THEN ErrNotIncreasing
    ELSE IF Len(sp.x) <= sp.k THEN ErrTooFewPoints
    ELSE ""

\* the exception, if any, of building sp and evaluating it at the times q
EvalExc(sp, q) ==
    IF BuildExc(sp) # "" THEN BuildExc(sp)
    ELSE IF ~AllInRange(sp, q) THEN ErrExtrapolate
    ELSE ""

\* the result of evaluating a function of time: an exception or the values
Failed(e) == [exc |-> e, v |-> <<>>]

Values(v) == [exc |-> "", v |-> v]

EvalChecked(sp, q) ==
    IF EvalExc(sp, q) # "" THEN Failed(EvalExc(sp, q))
    ELSE Values(EvalAll(sp, q))

(***************************************************************************)
(* Extrema and their interpolants.                                         *)
(***************************************************************************)
\* find_extrema is abstract in eccDefinition: dataDict carries the index
\* arrays the concrete finder returns for this signal
find_extrema(d, extrema_type) ==
    IF extrema_type = "maxima" THEN d.maxima ELSE d.minima

\* self.t[loc]
TimesAt(d, loc) == [j \in 1..Len(loc) |-> t(d, loc[j])]

\* self.omega22[loc]
Omega22At(d, loc) == [j \in 1..Len(loc) |-> omega22(d, loc[j])]

\* variant of NearestTime for a time array that starts at 0
NearestTimeFromZero(d, x) ==
    ArgMin([i \in 1..NSamples |-> Abs(TStep * (i - 1) - x)])

\* np.argmin(np.abs(self.t - x))
NearestTime(d, x) ==
    ArgMin([i \in 1..NSamples |-> Abs(t(d, i - 1) - x)])

\* np.argmin(np.abs(self.phase22 - x))
NearestPhase(d, x) == ArgMin([i \in 1..NSamples |-> Abs(phase22(d, i - 1) - x)])

\* the index idx_num_orbit_earlier_than_merger computed in interp_extrema
ExclusionIdx(d, kw) ==
    NearestPhase(d, phase22(d, NearestTime(d, d.t_merger))
                    - 4 * PiU * kw.num_orbits_to_exclude_before_merger)

\* extrema_idx[extrema_idx <= idx]
UpTo(extrema_idx, idx) == SelectSeq(extrema_idx, LAMBDA x : x <= idx)

KeptExtrema(d, kw, found) ==
    IF kw.num_orbits_to_exclude_before_merger # NoOrbits
    THEN UpTo(found, ExclusionIdx(d, kw))
    ELSE found

\* InterpolatedUnivariateSpline(self.t[loc], self.omega22[loc],
\* **self.spline_kwargs)
ExtremaSpline(d, loc, k) ==
    Spline(TimesAt(d, loc), Omega22At(d, loc), k)

\* interp_extrema: the instance after the call, the spline and the indices
interp_extrema(d, kw, s, extrema_type) ==
    LET Excluded(idx) ==
            [s EXCEPT !.idx_num_orbit_earlier_than_merger = idx,
                      !.latest_time_used_for_extrema_finding = t(d, idx)]
        Built(s1, spline, extrema_idx) ==
            IF BuildExc(spline) # ""
            THEN [s |-> Raise(s1, BuildExc(spline)),
                  spline |-> NoSpline, idx |-> <<>>]
            ELSE [s |-> s1, spline |-> spline, idx |-> extrema_idx]
        Interp(s1, extrema_idx) ==
            IF Len(extrema_idx) >= 2
            THEN Built(s1, ExtremaSpline(d, extrema_idx, s1.spline_kwargs.k),
                       extrema_idx)
            ELSE [s |-> Raise(s1, IF extrema_type = "maxima"
                                  THEN ErrTooFewMaxima ELSE ErrTooFewMinima),
                  spline |-> NoSpline, idx |-> <<>>]
    IN Interp(IF kw.num_orbits_to_exclude_before_merger # NoOrbits
              THEN Excluded(ExclusionIdx(d, kw)) ELSE s,
              KeptExtrema(d, kw, find_extrema(d, extrema_type)))

\* variant of MidLocations that rounds the midpoints up
MidLocationsCeil(loc) ==
    [j \in 1..(Len(loc) - 1) |-> (loc[j] + loc[j + 1] + 1) \div 2]

\* (loc[:-1] + loc[1:]) / 2 converted to int
MidLocations(loc) ==
    [j \in 1..(Len(loc) - 1) |-> (loc[j] + loc[j + 1]) \div 2]

\* get_apocenters_from_pericenters
get_apocenters_from_pericenters(d, s) ==
    LET Built(spline, apocenters_idx) ==
            IF BuildExc(spline) # ""
            THEN [s |-> Raise(s, BuildExc(spline)),
                  spline |-> NoSpline, idx |-> <<>>]
            ELSE [s |-> s, spline |-> spline, idx |-> apocenters_idx]
        Interp(apocenters_idx) ==
            IF Len(apocenters_idx) >= 2
            THEN Built(ExtremaSpline(d, apocenters_idx, s.spline_kwargs.k),
                       apocenters_idx)
            ELSE [s |-> Raise(s, ErrTooFewApocenters),
                  spline |-> NoSpline, idx |-> <<>>]
    IN Interp(MidLocations(s.pericenters_location))

(***************************************************************************)
(* Arrays and scalars: a value with its number of dimensions (np.ndim).    *)
(***************************************************************************)
Arr(v) == [ndim |-> 1, v |-> v]

Scalar(x) == [ndim |-> 0, v |-> <<x>>]

\* a[0] of a one-dimensional array
First(a) == Scalar(a.v[1])

(***************************************************************************)
(* omega22 averaging methods.                                              *)
(***************************************************************************)
Methods == {"mean_of_extrema_interpolants", "mean_motion", "omega22_zeroecc"}

\* midpoints (t[loc][1:] + t[loc][:-1]) / 2
MidTimes(d, loc) ==
    [j \in 1..(Len(loc) - 1) |-> (t(d, loc[j + 1]) + t(d, loc[j])) \div 2]

\* np.argsort: 0-based indices that sort q, equal elements in input order
ArgSort(q) ==
    LET Rank(i) == Cardinality({j \in 1..Len(q) :
                       q[j] < q[i] \/ (q[j] = q[i] /\ j < i)})
    IN [r \in 1..Len(q) |-> (CHOOSE i \in 1..Len(q) : Rank(i) = r - 1) - 1]

\* a[idx] for an array idx of 0-based indices
Take(a, idx) == [j \in 1..Len(idx) |-> a[idx[j] + 1]]

\* variant of get_t_average_for_mean_motion that appends the midpoints of the
\* apocenters to those of the pericenters
get_t_average_pericenters_first(d, s) ==
    LET Sorted(t_average, sorted_idx) ==
            [t_average |-> Take(t_average, sorted_idx),
             sorted_idx |-> sorted_idx]
        Sort(t_average) == Sorted(t_average, ArgSort(t_average))
    IN Sort(MidTimes(d, s.pericenters_location)
            \o MidTimes(d, s.apocenters_location))

\* get_t_average_for_mean_motion: t_average and sorted_idx
get_t_average_for_mean_motion(d, s) ==
    LET Sorted(t_average, sorted_idx) ==
            [t_average |-> Take(t_average, sorted_idx),
             sorted_idx |-> sorted_idx]
        Sort(t_average) == Sorted(t_average, ArgSort(t_average))
    IN Sort(MidTimes(d, s.apocenters_location)
            \o MidTimes(d, s.pericenters_location))

\* mean_motion_at_extrema(n): phase difference over time difference of the
\* n-th and (n+1)-th extremum (n is 1-based here), in the unit of omega22
MeanMotion(d, loc, n) ==
    (12 * TStep * (phase22(d, loc[n + 1]) - phase22(d, loc[n])))
        \div (t(d, loc[n + 1]) - t(d, loc[n]))

\* any(np.diff(averages) <= 0), compared on the exact quotients
MeanMotionNotIncreasing(d, loc) ==
    \E n \in 1..(Len(loc) - 2) :
        (phase22(d, loc[n + 2]) - phase22(d, loc[n + 1]))
            * (t(d, loc[n + 1]) - t(d, loc[n]))
        <= (phase22(d, loc[n + 1]) - phase22(d, loc[n]))
            * (t(d, loc[n + 2]) - t(d, loc[n + 1]))

\* the averages at apocenters followed by those at pericenters
MeanMotions(d, s) ==
    [n \in 1..(Len(s.apocenters_location) - 1) |->
        MeanMotion(d, s.apocenters_location, n)]
    \o [n \in 1..(Len(s.pericenters_location) - 1) |->
        MeanMotion(d, s.pericenters_location, n)]

\* variant of compute_mean_motion_at_extrema that checks the averages at the
\* pericenters only
compute_mean_motion_pericenters_only(d, s, q) ==
    IF MeanMotionNotIncreasing(d, s.pericenters_location)
    THEN Failed(ErrMeanMotionPeri)
    ELSE EvalChecked(Spline(s.t_average_mean_motion,
                            Take(MeanMotions(d, s), s.sorted_idx_mean_motion),
                            3),
                     q)

\* compute_mean_motion_at_extrema(t) for the array q of times
compute_mean_motion_at_extrema(d, s, q) ==
    IF MeanMotionNotIncreasing(d, s.pericenters_location)
    THEN Failed(ErrMeanMotionPeri)
    ELSE IF MeanMotionNotIncreasing(d, s.apocenters_location)
    THEN Failed(ErrMeanMotionApo)
    ELSE EvalChecked(Spline(s.t_average_mean_motion,
                            Take(MeanMotions(d, s), s.sorted_idx_mean_motion),
                            3),
                     q)

\* compute_omega22_average_between_extrema(t)
compute_omega22_average_between_extrema(s, q) ==
    IF EvalExc(s.omega22_pericenters_interp, q) # ""
    THEN Failed(EvalExc(s.omega22_pericenters_interp, q))
    ELSE IF EvalExc(s.omega22_apocenters_interp, q) # ""
    THEN Failed(EvalExc(s.omega22_apocenters_interp, q))
    ELSE Values([j \in 1..Len(q) |->
                    (Eval(s.omega22_pericenters_interp, q[j])
                     + Eval(s.omega22_apocenters_interp, q[j])) \div 2])

\* compute_omega22_zeroecc(t): needs the attributes that __init__ sets only
\* when dataDict has "hlm_zeroecc"
compute_omega22_zeroecc(d, q) ==
    IF ~d.has_zeroecc THEN Failed(ErrNoZeroecc)
    ELSE EvalChecked(Spline(TimeArray(d),
                            [i \in 1..NSamples |-> omega22_zeroecc(d, i - 1)],
                            3),
                     q)

\* self.available_averaging_methods[method](t)
omega22_average_at(d, s, method, q) ==
    IF method = "mean_motion" THEN compute_mean_motion_at_extrema(d, s, q)
    ELSE IF method = "mean_of_extrema_interpolants"
        THEN compute_omega22_average_between_extrema(s, q)
    ELSE IF method = "omega22_zeroecc" THEN compute_omega22_zeroecc(d, q)
    ELSE Failed(ErrKeyMethod)

\* variant of get_fref_bounds that starts the window of mean_motion at the
\* earlier of the first midpoint time and tmin
get_fref_bounds_earliest(d, s, method) ==
    LET MeanMotionWindow(ta) ==
            [s EXCEPT !.t_average_mean_motion = ta.t_average,
                      !.sorted_idx_mean_motion = ta.sorted_idx,
                      !.tmin_for_fref = Min2(SeqMin(ta.t_average), s.tmin),
                      !.tmax_for_fref = Min2(SeqMax(ta.t_average), s.tmax)]
        Bounds(s1, lo, hi) ==
            IF lo.exc # "" THEN Raise(s1, lo.exc)
            ELSE IF hi.exc # "" THEN Raise(s1, hi.exc)
            ELSE [s1 EXCEPT !.fref_min = lo.v[1], !.fref_max = hi.v[1]]
        Evaluate(s1) ==
            Bounds(s1,
                   omega22_average_at(d, s1, method, <<s1.tmin_for_fref>>),
                   omega22_average_at(d, s1, method, <<s1.tmax_for_fref>>))
    IN Evaluate(IF method = "mean_motion"
                THEN MeanMotionWindow(get_t_average_for_mean_motion(d, s))
                ELSE [s EXCEPT !.tmin_for_fref = s.tmin,
                               !.tmax_for_fref = s.tmax])

\* get_fref_bounds: the instance with tmin_for_fref, tmax_for_fref, fref_min
\* and fref_max assigned as far as the call gets
get_fref_bounds(d, s, method) ==
    LET MeanMotionWindow(ta) ==
            [s EXCEPT !.t_average_mean_motion = ta.t_average,
                      !.sorted_idx_mean_motion = ta.sorted_idx,
                      !.tmin_for_fref = Max2(SeqMin(ta.t_average), s.tmin),
                      !.tmax_for_fref = Min2(SeqMax(ta.t_average), s.tmax)]
        Bounds(s1, lo, hi) ==
            IF lo.exc # "" THEN Raise(s1, lo.exc)
            ELSE IF hi.exc # "" THEN Raise(s1, hi.exc)
            ELSE [s1 EXCEPT !.fref_min = lo.v[1], !.fref_max = hi.v[1]]
        Evaluate(s1) ==
            Bounds(s1,
                   omega22_average_at(d, s1, method, <<s1.tmin_for_fref>>),
                   omega22_average_at(d, s1, method, <<s1.tmax_for_fref>>))
    IN Evaluate(IF method = "mean_motion"
                THEN MeanMotionWindow(get_t_average_for_mean_motion(d, s))
                ELSE [s EXCEPT !.tmin_for_fref = s.tmin,
                               !.tmax_for_fref = s.tmax])

\* variant of FrefInBounds that keeps a frequency equal to fref_max
FrefInBoundsClosed(s, fref_in) ==
    SelectSeq(fref_in, LAMBDA f : f >= s.fref_min /\ f <= s.fref_max)

\* fref_in[fref_in >= fref_min and fref_in < fref_max]
FrefInBounds(s, fref_in) ==
    SelectSeq(fref_in, LAMBDA f : f >= s.fref_min /\ f < s.fref_max)

\* get_fref_out: the kept frequencies, or the exception for an empty result
get_fref_out(s, fref_in) ==
    LET Checked(fref_out) ==
            IF Len(fref_out) = 0
            THEN IF fref_in[1] < s.fref_min THEN Failed(ErrFrefEarlier)
                 ELSE IF Last(fref_in) > s.fref_max THEN Failed(ErrFrefLater)
                 ELSE Failed(ErrFrefOutEmpty)
            ELSE Values(fref_out)
    IN Checked(FrefInBounds(s, fref_in))

WarnAvgNotMonotonic == "Omega22 average is not monotonically increasing"
WarnTrefNotMonotonic == "tref_in from fref_in is not monotonically increasing"

NotIncreasing(q) == \E j \in 1..(Len(q) - 1) : q[j + 1] - q[j] <= 0

\* self.t[(self.t >= lo) and (self.t < hi)]
TimesWithin(d, lo, hi) ==
    SelectSeq(TimeArray(d), LAMBDA x : x >= lo /\ x < hi)

\* compute_tref_in_and_fref_out_from_fref_in: the instance after the call
\* with tref_in and fref_out assigned (the caller's assignment included)
compute_tref_in_and_fref_out_from_fref_in(d, kw, s, fref_in) ==
    LET method == kw.omega22_averaging_method
        Invert(s3, fo, tr) ==
            IF tr.exc # "" THEN Raise(s3, tr.exc)
            ELSE [(IF NotIncreasing(tr.v) THEN Warn(s3, WarnTrefNotMonotonic)
                   ELSE s3)
                     EXCEPT !.tref_in = tr.v, !.fref_out = Arr(fo.v)]
        Averaged(s1, fo, avg) ==
            IF avg.exc # "" THEN Raise(s1, avg.exc)
            ELSE Invert(IF NotIncreasing(avg.v)
                        THEN Warn([s1 EXCEPT !.omega22_average = avg.v],
                                  WarnAvgNotMonotonic)
                        ELSE [s1 EXCEPT !.omega22_average = avg.v],
                        fo,
                        EvalChecked(Spline(avg.v, s1.t_for_omega22_average,
                                           3),
                                    fo.v))
        OnGrid(s1, fo) ==
            Averaged(s1, fo,
                     omega22_average_at(d, s1, method,
                                        s1.t_for_omega22_average))
        Filtered(fo) ==
            IF fo.exc # "" THEN Raise(s, fo.exc)
            ELSE OnGrid([s EXCEPT !.t_for_omega22_average =
                                      TimesWithin(d, s.tmin_for_fref,
                                                  s.tmax_for_fref)],
                        fo)
    IN IF method \notin Methods THEN Raise(s, ErrNoMethod)
       ELSE Filtered(get_fref_out(s, fref_in))

(***************************************************************************)
(* Eccentricity and mean anomaly.                                          *)
(***************************************************************************)
\* check_time_limits: the exception it raises for the times q, "" if none
check_time_limits(s, q) ==
    IF \E j \in 1..Len(q) : q[j] >= s.tmax THEN ErrFoundLater
    ELSE IF \E j \in 1..Len(q) : q[j] < s.tmin THEN ErrFoundEarlier
    ELSE ""

\* the eccentricity as the reduced ratio <<omega22_pericenter,
\* omega22_apocenter>>; ew22 and et_from_ew22_0pn are increasing functions
\* of that ratio and vanish where the two agree
EccOf(wp, wa) ==
    LET g == GCD(Abs(wp), Abs(wa))
    IN IF g = 0 THEN <<0, 0>> ELSE <<wp \div g, wa \div g>>

\* compute_eccentricity(t) for the array q of times
compute_eccentricity(s, q) ==
    IF check_time_limits(s, q) # "" THEN Failed(check_time_limits(s, q))
    ELSE IF EvalExc(s.omega22_pericenters_interp, q) # ""
    THEN Failed(EvalExc(s.omega22_pericenters_interp, q))
    ELSE IF EvalExc(s.omega22_apocenters_interp, q) # ""
    THEN Failed(EvalExc(s.omega22_apocenters_interp, q))
    ELSE Values([j \in 1..Len(q) |->
                    EccOf(Eval(s.omega22_pericenters_interp, q[j]),
                          Eval(s.omega22_apocenters_interp, q[j]))])

\* e1 < e2 for two eccentricity values
EccLess(e1, e2) == e1[1] * e2[2] < e2[1] * e1[2]

Sign(x) == IF x > 0 THEN 1 ELSE IF x < 0 THEN -1 ELSE 0

\* np.arctan2(y, x) by the signs of y and x, as the place of the angle on
\* the scale -3, ..., 4: an even c is the angle c * pi / 4, an odd c an angle
\* strictly between (c - 1) * pi / 4 and (c + 1) * pi / 4
ArcTan2(y, x) ==
    IF x > 0 THEN y
    ELSE IF x = 0 THEN 2 * y
    ELSE IF y >= 0 THEN 4 - y ELSE -3

\* ew22 of lines 582-585 for the frequencies wp > 0 and wa >= 0 at the
\* pericenter and the apocenter, as its place on the scale -2, ..., 2: -2 is
\* -1, -1 a number in (-1, 0), 0 is 0, 1 a number in (0, 1), 2 is 1
ew22(wp, wa) ==
    IF wa = 0 THEN 2 ELSE IF wp = 0 THEN -2 ELSE Sign(wp - wa)

\* variant of et_from_ew22_0pn with the arguments of arctan2 exchanged
et_from_ew22_0pn_swapped(ew) ==
    LET et(psi) == IF psi < 2 THEN 1 ELSE IF psi = 2 THEN 0 ELSE -1
    IN et(ArcTan2(Sign(ew), IF Abs(ew) = 2 THEN 0 ELSE 1))

\* et_from_ew22_0pn, as the sign of et: with psi in [-pi, pi],
\* cos(psi / 3) - sqrt(3) sin(psi / 3) = 2 cos(psi / 3 + pi / 3) is positive
\* for psi < pi / 2, zero at pi / 2 and negative above
et_from_ew22_0pn(ew) ==
    LET et(psi) == IF psi < 2 THEN 1 ELSE IF psi = 2 THEN 0 ELSE -1
    IN et(ArcTan2(IF Abs(ew) = 2 THEN 0 ELSE 1, Sign(ew)))

\* the sign of an eccentricity value
EccSign(e) == et_from_ew22_0pn(ew22(e[1], e[2]))

EccNegative(e) == EccSign(e) < 0

\* variant of PericentersUpTo that takes a pericenter at tt itself as the
\* next one
PericentersBefore(s, tt) ==
    {j \in 0..(Len(s.t_pericenters) - 1) : s.t_pericenters[j + 1] < tt}

\* the 0-based indices np.where(self.t_pericenters <= tt)[0]
PericentersUpTo(s, tt) ==
    {j \in 0..(Len(s.t_pericenters) - 1) : s.t_pericenters[j + 1] <= tt}

\* mean_ano(t) of compute_mean_ano as the fraction <<t - t_last, period>> of
\* 2 pi, reduced
mean_ano(s, tt) ==
    LET Reduced(t_since_last_pericenter, current_period, g) ==
            <<t_since_last_pericenter \div g, current_period \div g>>
        Fraction(t_since_last_pericenter, current_period) ==
            Reduced(t_since_last_pericenter, current_period,
                    GCD(t_since_last_pericenter, current_period))
        Since(idx_at_last_pericenter) ==
            Fraction(tt - s.t_pericenters[idx_at_last_pericenter + 1],
                     s.t_pericenters[idx_at_last_pericenter + 2]
                     - s.t_pericenters[idx_at_last_pericenter + 1])
    IN Since(CHOOSE j \in PericentersUpTo(s, tt) :
                 \A k \in PericentersUpTo(s, tt) : k <= j)

\* the index errors of mean_ano: no pericenter at or before tt, or none after
MeanAnoIndexError(s, tt) ==
    \/ PericentersUpTo(s, tt) = {}
    \/ \E j \in PericentersUpTo(s, tt) : j + 1 = Len(s.t_pericenters)

\* compute_mean_ano(t) for the array q of times
compute_mean_ano(s, q) ==
    IF check_time_limits(s, q) # "" THEN Failed(check_time_limits(s, q))
    ELSE IF \E j \in 1..Len(q) : MeanAnoIndexError(s, q[j])
    THEN Failed(ErrIndex)
    ELSE Values([j \in 1..Len(q) |-> mean_ano(s, q[j])])

(***************************************************************************)
(* Validators.                                                             *)
(***************************************************************************)
WarnCountsDiffer == "Number of pericenters and number of apocenters differ"
WarnNotAlternate == "pericenters and apocenters do not appear alternately"
WarnTooClose(extrema_type) ==
    IF extrema_type = "pericenters"
    THEN "At least a pair of pericenters are too close"
    ELSE "At least a pair of apocenters are too close"
WarnTooFar(extrema_type) ==
    IF extrema_type = "pericenters"
    THEN "At least a pair of pericenters are too far"
    ELSE "At least a pair of apocenters are too far"
WarnCloserToPi == "Phase shift closer to pi than 2 pi detected"
WarnNegativeEcc == "Encountered negative eccentricity"
WarnNonMonotonic == "Ecc(t) is non monotonic"
WarnConcave == "Ecc(t) is concave"

\* arr[::2] = arr1; arr[1::2] = arr2
Interleave(arr1, arr2) ==
    [j \in 1..(Len(arr1) + Len(arr2)) |->
        IF j % 2 = 1 THEN arr1[(j + 1) \div 2] ELSE arr2[j \div 2]]

\* check_pericenters_and_apocenters_appear_alternately
check_pericenters_and_apocenters_appear_alternately(d, s) ==
    LET peri == s.pericenters_location
        apo == s.apocenters_location
        Check(arr) ==
            IF \E j \in 1..(Len(arr) - 1) :
                   t(d, arr[j + 1]) - t(d, arr[j]) < 0
            THEN Warn(s, WarnNotAlternate)
            ELSE s
    IN IF Abs(Len(peri) - Len(apo)) >= 2 THEN Warn(s, WarnCountsDiffer)
       ELSE IF Len(peri) = Len(apo)
       THEN IF t(d, peri[1]) < t(d, apo[1])
            THEN Check(Interleave(peri, apo))
            ELSE Check(Interleave(apo, peri))
       ELSE IF Len(peri) > Len(apo) THEN Check(Interleave(peri, apo))
       ELSE Check(Interleave(apo, peri))

\* 2 * orb_phase_diff: np.diff(phase22[extrema_location] / 2), doubled
OrbPhaseDiff2(d, loc) ==
    [j \in 1..(Len(loc) - 1) |-> phase22(d, loc[j + 1]) - phase22(d, loc[j])]

\* orb_phase_diff[1:] / orb_phase_diff[:-1] > factor, with the quotient of
\* floating point division by zero (inf, -inf or nan)
RatioExceeds(num, den, fnum, fden) ==
    IF den > 0 THEN fden * num > fnum * den
    ELSE IF den < 0 THEN fden * num < fnum * den
    ELSE num > 0

\* variant of SeparationWarnings for which a difference of exactly pi is
\* too close
SeparationWarningsInclusive(dd, extrema_type) ==
    {w \in {WarnTooClose(extrema_type)} :
        \E j \in 1..Len(dd) : dd[j] <= 2 * PiU}
    \cup {w \in {WarnCloserToPi} :
        \E j \in 1..Len(dd) : Abs(dd[j] - 2 * PiU) < Abs(dd[j] - 4 * PiU)}
    \cup {w \in {WarnTooFar(extrema_type)} :
        \E j \in 1..(Len(dd) - 1) : RatioExceeds(dd[j + 1], dd[j], 3, 2)}

\* too_far_times of lines 696-702: orb_phase_diff_ratio is the array of the
\* quotients with a 0 put in front, and the times are taken from
\* self.t[extrema_location][1:]
TooFarTimes(d, loc) ==
    LET dd == OrbPhaseDiff2(d, loc)
        ratio_exceeds(i) ==
            i >= 1 /\ RatioExceeds(dd[i + 1], dd[i], 3, 2)
        too_far_idx ==
            SelectSeq([j \in 1..Len(dd) |-> j - 1], ratio_exceeds)
        t_at_extrema == Tail(TimesAt(d, loc))
    IN Take(t_at_extrema, too_far_idx)

\* check_extrema_separation with max_orb_phase_diff_factor = 1.5 and
\* min_orb_phase_diff = pi: the warnings it emits for the doubled
\* differences dd
SeparationWarnings(dd, extrema_type) ==
    {w \in {WarnTooClose(extrema_type)} :
        \E j \in 1..Len(dd) : dd[j] < 2 * PiU}
    \cup {w \in {WarnCloserToPi} :
        \E j \in 1..Len(dd) : Abs(dd[j] - 2 * PiU) < Abs(dd[j] - 4 * PiU)}
    \cup {w \in {WarnTooFar(extrema_type)} :
        \E j \in 1..(Len(dd) - 1) : RatioExceeds(dd[j + 1], dd[j], 3, 2)}

check_extrema_separation(d, s, loc, extrema_type) ==
    [s EXCEPT !.warns =
        @ \cup SeparationWarnings(OrbPhaseDiff2(d, loc), extrema_type)]

\* the knot interval of tt in the spline sp
KnotInterval(sp, tt) ==
    IF \A k \in 1..(Len(sp.x) - 1) : sp.x[k] > tt THEN 1
    ELSE CHOOSE i \in 1..(Len(sp.x) - 1) :
            sp.x[i] <= tt /\ \A j \in (i + 1)..(Len(sp.x) - 1) : sp.x[j] > tt

\* sign of ecc_interp.derivative(n=1)(tt): the slope of the interpolant of
\* the eccentricity in the knot interval of tt
DerivSign(sp, tt) ==
    LET Slope(k) == IF EccLess(sp.y[k], sp.y[k + 1]) THEN 1
                    ELSE IF EccLess(sp.y[k + 1], sp.y[k]) THEN -1
                    ELSE 0
    IN IF Len(sp.x) < 2 THEN 0 ELSE Slope(KnotInterval(sp, tt))

\* derivative_of_eccentricity(t, n): the instance with the caches filled,
\* and the derivative (of order 1 whatever n) or the exception
derivative_of_eccentricity(s, q, n) ==
    LET Derive(s2) ==
            [s |-> s2, exc |-> "",
             v |-> [j \in 1..Len(q) |-> DerivSign(s2.ecc_interp, q[j])]]
        Interp(s1, spline) ==
            IF BuildExc(spline) # ""
            THEN [s |-> s1, exc |-> BuildExc(spline), v |-> <<>>]
            ELSE Derive([s1 EXCEPT !.ecc_interp = spline,
                                   !.cached = @ \cup {"ecc_interp"}])
        WithInterp(s1) ==
            IF "ecc_interp" \in s1.cached THEN Derive(s1)
            ELSE Interp(s1, Spline(s1.t_for_checks, s1.ecc_for_checks, 3))
        WithEcc(ecc) ==
            IF ecc.exc # "" THEN [s |-> s, exc |-> ecc.exc, v |-> <<>>]
            ELSE WithInterp([s EXCEPT !.ecc_for_checks = ecc.v,
                                      !.cached = @ \cup {"ecc_for_checks"}])
    IN IF check_time_limits(s, q) # ""
       THEN [s |-> s, exc |-> check_time_limits(s, q), v |-> <<>>]
       ELSE IF "ecc_for_checks" \in s.cached THEN WithInterp(s)
       ELSE WithEcc(compute_eccentricity(s, s.t_for_checks))

\* check_monotonicity_and_convexity(check_convexity)
check_monotonicity_and_convexity(s, check_convexity) ==
    LET Convexity(s2) ==
            IF check_convexity THEN Raise(s2, ErrTypeDerivative) ELSE s2
        Monotonicity(s1) ==
            IF ~Ok(s1) THEN s1
            ELSE Convexity(IF \E j \in 1..Len(s1.decc_dt_for_checks) :
                                  s1.decc_dt_for_checks[j] > 0
                           THEN Warn(s1, WarnNonMonotonic)
                           ELSE s1)
        Store(dv) ==
            IF dv.exc # "" THEN Raise(dv.s, dv.exc)
            ELSE [dv.s EXCEPT !.decc_dt_for_checks = dv.v,
                              !.cached = @ \cup {"decc_dt_for_checks"}]
    IN Monotonicity(IF "decc_dt_for_checks" \in s.cached THEN s
                    ELSE Store(derivative_of_eccentricity(
                                   s, s.t_for_checks, 1)))

(***************************************************************************)
(* measure_ecc.                                                            *)
(***************************************************************************)
\* an argument that was not supplied (None)
NoArg == [given |-> FALSE, ndim |-> 0, v |-> <<>>]

ScalarArg(x) == [given |-> TRUE, ndim |-> 0, v |-> <<x>>]

ArrayArg(v) == [given |-> TRUE, ndim |-> 1, v |-> v]

\* variant of MeasureExtrema without the alternation check
MeasureExtremaUnchecked(d, kw, s) ==
    LET StoreApocenters(b) ==
            IF Ok(b.s)
            THEN [b.s EXCEPT !.omega22_apocenters_interp = b.spline,
                             !.apocenters_location = b.idx]
            ELSE b.s
        Apocenters(sa) ==
            IF ~Ok(sa) THEN sa
            ELSE StoreApocenters(
                    IF kw.treat_mid_points_between_pericenters_as_apocenters
                    THEN get_apocenters_from_pericenters(d, sa)
                    ELSE interp_extrema(d, kw, sa, "minima"))
        StorePericenters(a) ==
            Apocenters(IF Ok(a.s)
                       THEN [a.s EXCEPT !.omega22_pericenters_interp = a.spline,
                                        !.pericenters_location = a.idx]
                       ELSE a.s)
    IN StorePericenters(interp_extrema(d, kw, s, "maxima"))

\* lines 419-434: the two interpolants and the alternation check
MeasureExtrema(d, kw, s) ==
    LET Alternate(sb) ==
            IF ~Ok(sb) THEN sb
            ELSE check_pericenters_and_apocenters_appear_alternately(d, sb)
        StoreApocenters(b) ==
            Alternate(IF Ok(b.s)
                      THEN [b.s EXCEPT !.omega22_apocenters_interp = b.spline,
                                       !.apocenters_location = b.idx]
                      ELSE b.s)
        Apocenters(sa) ==
            IF ~Ok(sa) THEN sa
            ELSE StoreApocenters(
                    IF kw.treat_mid_points_between_pericenters_as_apocenters
                    THEN get_apocenters_from_pericenters(d, sa)
                    ELSE interp_extrema(d, kw, sa, "minima"))
        StorePericenters(a) ==
            Apocenters(IF Ok(a.s)
                       THEN [a.s EXCEPT !.omega22_pericenters_interp = a.spline,
                                        !.pericenters_location = a.idx]
                       ELSE a.s)
    IN StorePericenters(interp_extrema(d, kw, s, "maxima"))

\* lines 436-442: the reference window and the frequency bounds
MeasureWindow(d, kw, s) ==
    LET Window(t_pericenters, t_apocenters) ==
            get_fref_bounds(
                d,
                [s EXCEPT !.t_pericenters = t_pericenters,
                          !.t_apocenters = t_apocenters,
                          !.tmax = Min2(Last(t_pericenters),
                                        Last(t_apocenters)),
                          !.tmin = Max2(t_pericenters[1], t_apocenters[1])],
                kw.omega22_averaging_method)
    IN Window(TimesAt(d, s.pericenters_location),
              TimesAt(d, s.apocenters_location))

\* variant of MeasureResolve that keeps the reference times of an earlier
\* call on the instance
MeasureResolveOnce(d, kw, s, tref_in, fref_in) ==
    IF tref_in.given = fref_in.given THEN Raise(s, ErrExactlyOne)
    ELSE IF tref_in.given
    THEN [s EXCEPT !.tref_in = IF s.tref_in = <<>> THEN tref_in.v ELSE @]
    ELSE compute_tref_in_and_fref_out_from_fref_in(d, kw, s, fref_in.v)

\* lines 443-456: exactly one of tref_in and fref_in
MeasureResolve(d, kw, s, tref_in, fref_in) ==
    IF tref_in.given = fref_in.given THEN Raise(s, ErrExactlyOne)
    ELSE IF tref_in.given THEN [s EXCEPT !.tref_in = tref_in.v]
    ELSE compute_tref_in_and_fref_out_from_fref_in(d, kw, s, fref_in.v)

\* variant of TrefInWindow that keeps a reference time equal to tmax
TrefInWindowClosed(s) ==
    SelectSeq(s.tref_in, LAMBDA x : x <= s.tmax /\ x >= s.tmin)

\* variant of TrefInWindow that has no upper end
TrefInWindowFromTmin(s) == SelectSeq(s.tref_in, LAMBDA x : x >= s.tmin)

\* tref_in[tref_in < tmax and tref_in >= tmin]
TrefInWindow(s) ==
    SelectSeq(s.tref_in, LAMBDA x : x < s.tmax /\ x >= s.tmin)

\* variant of EmptyTrefOut that tests for "earlier than tmin" first
EmptyTrefOutEarlierFirst(s) ==
    IF Len(s.tref_in) = 0 THEN ErrIndex
    ELSE IF s.tref_in[1] < s.tmin THEN ErrEarlierThanTmin
    ELSE IF Last(s.tref_in) > s.tmax THEN ErrLaterThanTmax
    ELSE ErrTrefOutEmpty

\* lines 479-495: the exception raised for an empty tref_out
EmptyTrefOut(s) ==
    IF Len(s.tref_in) = 0 THEN ErrIndex
    ELSE IF Last(s.tref_in) > s.tmax THEN ErrLaterThanTmax
    ELSE IF s.tref_in[1] < s.tmin THEN ErrEarlierThanTmin
    ELSE ErrTrefOutEmpty

\* variant of MeasureFilter without the comparison of the lengths of
\* fref_out and tref_out
MeasureFilterUnchecked(d, s, fref_in) ==
    LET Sanity(s1) ==
            IF Len(s1.tref_out.v) = 0 THEN Raise(s1, EmptyTrefOut(s1))
            ELSE s1
    IN Sanity([s EXCEPT !.tref_out = Arr(TrefInWindow(s)),
                        !.t_for_checks = TimesWithin(d, s.tmin, s.tmax)])

\* variant of MeasureFilter that takes t_for_checks from the reference times
\* of the call
MeasureFilterChecksAtTref(d, s, fref_in) ==
    LET Sanity(s1) ==
            IF fref_in.given /\ Len(s1.fref_out.v) # Len(s1.tref_out.v)
            THEN Raise(s1, ErrLength)
            ELSE IF Len(s1.tref_out.v) = 0 THEN Raise(s1, EmptyTrefOut(s1))
            ELSE s1
    IN Sanity([s EXCEPT !.tref_out = Arr(TrefInWindow(s)),
                        !.t_for_checks = TrefInWindow(s)])

\* lines 463-495: tref_out, t_for_checks and the sanity checks
MeasureFilter(d, s, fref_in) ==
    LET Sanity(s1) ==
            IF fref_in.given /\ Len(s1.fref_out.v) # Len(s1.tref_out.v)
            THEN Raise(s1, ErrLength)
            ELSE IF Len(s1.tref_out.v) = 0 THEN Raise(s1, EmptyTrefOut(s1))
            ELSE s1
    IN Sanity([s EXCEPT !.tref_out = Arr(TrefInWindow(s)),
                        !.t_for_checks = TimesWithin(d, s.tmin, s.tmax)])

\* variant of MeasureChecks that accepts a last reference time at the last
\* pericenter
MeasureChecksLast(d, s) ==
    LET Bounded(s2) ==
            IF \/ s2.tref_out.v[1] < s2.t_pericenters[1]
               \/ Last(s2.tref_out.v) > Last(s2.t_pericenters)
            THEN Raise(s2, ErrTwoPericenters)
            ELSE s2
        AtApocenters(s1) ==
            Bounded([check_extrema_separation(d, s1, s1.apocenters_location,
                                              "apocenters")
                        EXCEPT !.orb_phase_diff_at_apocenters =
                                   OrbPhaseDiff2(d, s1.apocenters_location)])
    IN AtApocenters([check_extrema_separation(d, s, s.pericenters_location,
                                              "pericenters")
                        EXCEPT !.orb_phase_diff_at_pericenters =
                                   OrbPhaseDiff2(d, s.pericenters_location)])

\* lines 497-512: separation checks and the bounding pericenters
MeasureChecks(d, s) ==
    LET Bounded(s2) ==
            IF \/ s2.tref_out.v[1] < s2.t_pericenters[1]
               \/ Last(s2.tref_out.v) >= Last(s2.t_pericenters)
            THEN Raise(s2, ErrTwoPericenters)
            ELSE s2
        AtApocenters(s1) ==
            Bounded([check_extrema_separation(d, s1, s1.apocenters_location,
                                              "apocenters")
                        EXCEPT !.orb_phase_diff_at_apocenters =
                                   OrbPhaseDiff2(d, s1.apocenters_location)])
    IN AtApocenters([check_extrema_separation(d, s, s.pericenters_location,
                                              "pericenters")
                        EXCEPT !.orb_phase_diff_at_pericenters =
                                   OrbPhaseDiff2(d, s.pericenters_location)])

\* lines 514-525: eccentricity, mean anomaly and the checks on them
MeasureEvaluate(kw, s) ==
    LET Debug(s3) ==
            IF kw.debug THEN check_monotonicity_and_convexity(s3, FALSE)
            ELSE s3
        Positive(s2) ==
            Debug(IF \E j \in 1..Len(s2.ecc_ref.v) :
                         EccNegative(s2.ecc_ref.v[j])
                  THEN Warn(s2, WarnNegativeEcc)
                  ELSE s2)
        StoreMeanAno(s1, ano) ==
            IF ano.exc # "" THEN Raise(s1, ano.exc)
            ELSE Positive([s1 EXCEPT !.mean_ano_ref = Arr(ano.v)])
        MeanAno(s1) == StoreMeanAno(s1, compute_mean_ano(s1, s1.tref_out.v))
        StoreEcc(ecc) ==
            IF ecc.exc # "" THEN Raise(s, ecc.exc)
            ELSE MeanAno([s EXCEPT !.ecc_ref = Arr(ecc.v)])
    IN StoreEcc(compute_eccentricity(s, s.tref_out.v))

\* variant of MeasureShape that returns arrays whatever the input
MeasureShapeArrays(s, tref_in, fref_in) == s

\* lines 527-534: scalar input gives scalar output
MeasureShape(s, tref_in, fref_in) ==
    LET FrefShape(s1) ==
            IF fref_in.given /\ fref_in.ndim = 0
            THEN [s1 EXCEPT !.fref_out = First(s1.fref_out)]
            ELSE s1
    IN FrefShape(IF (IF tref_in.given THEN tref_in.ndim ELSE fref_in.ndim) = 0
                 THEN [s EXCEPT !.mean_ano_ref = First(s.mean_ano_ref),
                                !.ecc_ref = First(s.ecc_ref),
                                !.tref_out = First(s.tref_out)]
                 ELSE s)

\* the instance after measure_ecc(tref_in, fref_in); exc is the exception
\* that ended the call, warns the warnings it emitted
measure_ecc(d, kw, s, tref_in, fref_in) ==
    LET Shape(s6) ==
            IF Ok(s6) THEN MeasureShape(s6, tref_in, fref_in) ELSE s6
        Evaluate(s5) ==
            Shape(IF Ok(s5) THEN MeasureEvaluate(kw, s5) ELSE s5)
        Checks(s4) ==
            Evaluate(IF Ok(s4) THEN MeasureChecks(d, s4) ELSE s4)
        Filter(s3) ==
            Checks(IF Ok(s3) THEN MeasureFilter(d, s3, fref_in) ELSE s3)
        Resolve(s2) ==
            Filter(IF Ok(s2) THEN MeasureResolve(d, kw, s2, tref_in, fref_in)
                   ELSE s2)
        Window(s1) ==
            Resolve(IF Ok(s1) THEN MeasureWindow(d, kw, s1) ELSE s1)
    IN Window(MeasureExtrema(d, kw, [s EXCEPT !.exc = "", !.warns = {}]))

NoValue == [ndim |-> 1, v |-> <<>>]

\* what the caller of measure_ecc gets: the exception, or the tuple
\* (return_array, ecc_ref, mean_ano_ref)
Returned(s, fref_in) ==
    IF ~Ok(s)
    THEN [exc |-> s.exc, ref |-> NoValue, ecc |-> NoValue, mean_ano |-> NoValue]
    ELSE [exc |-> "",
          ref |-> IF fref_in.given THEN s.fref_out ELSE s.tref_out,
          ecc |-> s.ecc_ref, mean_ano |-> s.mean_ano_ref]

(***************************************************************************)
(* The instance and what is done with it.                                  *)
(***************************************************************************)
\* the attributes after __init__(dataDict, spline_kwargs, extra_kwargs): the
\* three caches are None (not in cached), the attributes measure_ecc assigns
\* do not exist yet
NewInstance(spline_kwargs) ==
    [exc |-> "", warns |-> {}, cached |-> {}, spline_kwargs |-> spline_kwargs,
     idx_num_orbit_earlier_than_merger |-> 0,
     latest_time_used_for_extrema_finding |-> 0,
     omega22_pericenters_interp |-> NoSpline, pericenters_location |-> <<>>,
     omega22_apocenters_interp |-> NoSpline, apocenters_location |-> <<>>,
     t_pericenters |-> <<>>, t_apocenters |-> <<>>, tmax |-> 0, tmin |-> 0,
     t_average_mean_motion |-> <<>>, sorted_idx_mean_motion |-> <<>>,
     tmin_for_fref |-> 0, tmax_for_fref |-> 0, fref_min |-> 0, fref_max |-> 0,
     t_for_omega22_average |-> <<>>, omega22_average |-> <<>>,
     tref_in |-> <<>>, fref_out |-> NoValue, tref_out |-> NoValue,
     t_for_checks |-> <<>>,
     orb_phase_diff_at_pericenters |-> <<>>,
     orb_phase_diff_at_apocenters |-> <<>>,
     ecc_ref |-> NoValue, mean_ano_ref |-> NoValue,
     ecc_for_checks |-> <<>>, ecc_interp |-> NoSpline,
     decc_dt_for_checks |-> <<>>]

NoResult == [exc |-> "", ref |-> NoValue, ecc |-> NoValue, mean_ano |-> NoValue]

NoCall == [tref_in |-> NoArg, fref_in |-> NoArg]

\* index arrays a finder returns: strictly increasing, at most MaxExtrema
\* long, the first extremum at sample 0 or 1 and then one every 2 or 3
\* samples
RECURSIVE FromGaps(_, _)
FromGaps(first, gaps) ==
    IF gaps = <<>> THEN <<first>>
    ELSE <<first>> \o FromGaps(first + Head(gaps), Tail(gaps))

ExtremaArrays ==
    {loc \in {FromGaps(first, gaps) :
                 first \in {0, 1},
                 gaps \in UNION {[1..n -> {2, 3}] : n \in 0..(MaxExtrema - 1)}} :
        Last(loc) <= NSamples - 1}

\* one extremum every second sample from sample first on
Periodic(first) ==
    SelectSeq([j \in 1..MaxExtrema |-> first + 2 * (j - 1)],
              LAMBDA i : i <= NSamples - 1)

\* reference times, counted from t[0]: every sample time and every time half
\* way between two
RefTimes == 0..(TStep * (NSamples - 1))

\* reference frequencies times 2 pi, in the unit of omega22
RefFreqs == {6 * PiU * k : k \in 3..(NSamples + 3)}

\* the elements of array arguments: a time before every window, one inside
\* and one at the end of the longest
RefArrayTimes == {0, TStep * 2, TStep * (NSamples - 2)}

\* a frequency below every band, one inside and one above
RefArrayFreqs == {6 * PiU * 3, 6 * PiU * 6, 6 * PiU * (NSamples + 3)}

RefArrays(S) == UNION {[1..n -> S] : n \in 1..MaxRefLen}

TrefArgs ==
    {ScalarArg(x) : x \in RefTimes}
    \cup {ArrayArg(v) : v \in RefArrays(RefArrayTimes)}

FrefArgs ==
    {ScalarArg(x) : x \in RefFreqs}
    \cup {ArrayArg(v) : v \in RefArrays(RefArrayFreqs)}

BadArgs ==
    {<<NoArg, NoArg>>, <<ScalarArg(TStep * 2), ScalarArg(6 * PiU * 6)>>}

Kwargs ==
    [num_orbits_to_exclude_before_merger : {NoOrbits, 1, 2},
     omega22_averaging_method : Methods,
     treat_mid_points_between_pericenters_as_apocenters : BOOLEAN,
     debug : BOOLEAN]

\* spline_kwargs: the default degree of get_default_spline_kwargs, or linear
SplineKwargs == [k : {1, 3}]

\* get_default_extra_kwargs
DefaultKwargs ==
    [num_orbits_to_exclude_before_merger |-> 1,
     omega22_averaging_method |-> "mean_motion",
     treat_mid_points_between_pericenters_as_apocenters |-> FALSE,
     debug |-> TRUE]

\* no sample is both a maximum and a minimum
Disjoint(a, b) == \A i \in 1..Len(a) : \A j \in 1..Len(b) : a[i] # b[j]

\* any extrema a finder may return, for one signal and one configuration
InitLayouts ==
    /\ dataDict \in [profile : {"eccentric"}, t0 : {0},
                     t_merger : {TStep * (NSamples - 1)},
                     has_zeroecc : {FALSE},
                     maxima : ExtremaArrays, minima : ExtremaArrays]
    /\ Disjoint(dataDict.maxima, dataDict.minima)
    /\ extra_kwargs =
           [DefaultKwargs EXCEPT
               !.num_orbits_to_exclude_before_merger = NoOrbits,
               !.omega22_averaging_method = "mean_of_extrema_interpolants"]
    /\ self = NewInstance([k |-> 1])

\* any signal and configuration, for alternating extrema
InitConfigs ==
    /\ dataDict \in [profile : {"linear", "chirp", "eccentric"},
                     t0 : {0}, t_merger : {TStep * (NSamples - 1)},
                     has_zeroecc : BOOLEAN,
                     maxima : {Periodic(0), Periodic(1)},
                     minima : {Periodic(0), Periodic(1)}]
    /\ dataDict.maxima # dataDict.minima
    /\ extra_kwargs \in Kwargs
    /\ \E spline_kwargs \in SplineKwargs : self = NewInstance(spline_kwargs)

\* nothing was called on the instance yet
Constructed ==
    /\ call = NoCall
    /\ result = NoResult
    /\ ncalls = 0

\* one call measure_ecc(tref_in, fref_in) on the instance
MeasureEcc(tref_in, fref_in) ==
    /\ self' = measure_ecc(dataDict, extra_kwargs, self, tref_in, fref_in)
    /\ result' = Returned(self', fref_in)
    /\ call' = [tref_in |-> tref_in, fref_in |-> fref_in]
    /\ ncalls' = ncalls + 1
    /\ UNCHANGED <<dataDict, extra_kwargs>>

(***************************************************************************)
(* SpecFirst: the first call on a fresh instance, for every signal,        *)
(* configuration and argument of the model.                                *)
(***************************************************************************)
InitFirst == (InitLayouts \/ InitConfigs) /\ Constructed

NextFirst ==
    /\ ncalls = 0
    /\ \/ \E tref_in \in TrefArgs : MeasureEcc(tref_in, NoArg)
       \/ \E fref_in \in FrefArgs : MeasureEcc(NoArg, fref_in)
       \/ \E args \in BadArgs : MeasureEcc(args[1], args[2])

SpecFirst == InitFirst /\ [][NextFirst]_vars

(***************************************************************************)
(* Spec: up to MaxCalls calls in a row on one instance.                    *)
(***************************************************************************)
SeqTrefArgs ==
    {ScalarArg(0), ScalarArg(TStep * 2), ScalarArg(TStep * 3 + 1),
     ArrayArg(<<TStep * 2>>), ArrayArg(<<TStep * 3, TStep>>)}

SeqFrefArgs ==
    {ScalarArg(6 * PiU * 6), ArrayArg(<<6 * PiU * 6>>),
     ArrayArg(<<6 * PiU * 3, 6 * PiU * 7>>)}

Init ==
    /\ dataDict \in [profile : {"linear", "eccentric"},
                     t0 : {0}, t_merger : {TStep * (NSamples - 1)},
                     has_zeroecc : {TRUE},
                     maxima : {Periodic(0), Periodic(1)},
                     minima : {Periodic(0), Periodic(1)}]
    /\ dataDict.maxima # dataDict.minima
    /\ extra_kwargs \in
           [num_orbits_to_exclude_before_merger : {NoOrbits},
            omega22_averaging_method : Methods,
            treat_mid_points_between_pericenters_as_apocenters : {FALSE},
            debug : BOOLEAN]
    /\ \E spline_kwargs \in SplineKwargs : self = NewInstance(spline_kwargs)
    /\ Constructed

Next ==
    /\ ncalls < MaxCalls
    /\ \/ \E tref_in \in SeqTrefArgs : MeasureEcc(tref_in, NoArg)
       \/ \E fref_in \in SeqFrefArgs : MeasureEcc(NoArg, fref_in)
       \/ \E args \in BadArgs : MeasureEcc(args[1], args[2])

Spec == Init /\ [][Next]_vars

(***************************************************************************)
(* Construction.  __init__ works on the raw dataDict: the time array "t",  *)
(* whether "hlm_zeroecc" is a key, the time array "t_zeroecc", and the     *)
(* sample at which each signal peaks.  The raw times are integers in units *)
(* of 1e-8, the absolute tolerance of np.allclose.  The instance record    *)
(* holds the exception, the set of attributes assigned so far and the      *)
(* values of the attributes the checks read.                               *)
(***************************************************************************)
NSteps == 3

\* a time step of the raw arrays
Dt == 200000

\* np.allclose: atol = 1e-8 is one unit, rtol = 1e-5 is 1 / RtolInv
AtolU == 1
RtolInv == 100000

ErrNonUniform == "Input time array must have uniform time steps"
ErrNonUniformZeroecc == "Input time array t_zeroecc must have uniform time steps"
ErrZeroeccShort == "Length of zeroecc waveform must be >= the length of the eccentric waveform"
ErrNegativeOrbits == "num_orbits_to_exclude_before_merger must be non-negative"

\* np.diff
Diff(q) == [j \in 1..(Len(q) - 1) |-> q[j + 1] - q[j]]

\* variant of AllClose without tolerance
AllCloseExact(a, b) == \A j \in 1..Len(a) : a[j] = b

\* np.allclose(a, b) for an array a and a number b:
\* all(|a - b| <= atol + rtol * |b|)
AllClose(a, b) ==
    \A j \in 1..Len(a) :
        Abs(a[j] - b) * RtolInv <= AtolU * RtolInv + Abs(b)

\* the instance before __init__ has assigned anything
Unconstructed == [exc |-> "", assigned |-> {}, t |-> <<>>, t_merger |-> 0,
                  t_zeroecc_shifted |-> <<>>, extrapolated |-> FALSE]

Assign(s, names) == [s EXCEPT !.assigned = @ \cup names]

\* self.t_zeroecc - self.t_merger_zeroecc + self.t_merger
ShiftedTimes(d, s) ==
    [j \in 1..Len(d.t_zeroecc) |->
        d.t_zeroecc[j] - d.t_zeroecc[d.peak_zeroecc] + s.t_merger]

\* self.t_zeroecc_shifted[0] > self.t[0]
ZeroeccTooShort(s) == s.t_zeroecc_shifted[1] > s.t[1]

\* compute_res_amp_and_omega22: the two splines of the companion are built
\* with the default ext=0, so they extrapolate where self.t leaves the knots
compute_res_amp_and_omega22(d, s) ==
    LET OnGrid(s3, spline) ==
            IF BuildExc(spline) # "" THEN Raise(s3, BuildExc(spline))
            ELSE Assign([s3 EXCEPT !.extrapolated = ~AllInRange(spline, s3.t)],
                        {"amp22_zeroecc_interp", "res_amp22",
                         "phase22_zeroecc", "omega22_zeroecc",
                         "omega22_zeroecc_interp", "res_omega22"})
        Interpolate(s2) ==
            IF ZeroeccTooShort(s2) THEN Raise(s2, ErrZeroeccShort)
            ELSE OnGrid(s2, Spline(s2.t_zeroecc_shifted,
                                   s2.t_zeroecc_shifted, 3))
        Shift(s1) ==
            Interpolate(Assign([s1 EXCEPT !.t_zeroecc_shifted =
                                              ShiftedTimes(d, s1)],
                               {"h22_zeroecc", "t_merger_zeroecc",
                                "t_zeroecc_shifted"}))
        Uniform(s0) ==
            IF ~AllClose(Diff(d.t_zeroecc), Diff(d.t_zeroecc)[1])
            THEN Raise(s0, ErrNonUniformZeroecc)
            ELSE Shift(s0)
    IN Uniform(Assign(s, {"hlm_zeroecc", "t_zeroecc", "t_zeroecc_diff"}))

\* __init__(dataDict, spline_kwargs, extra_kwargs)
eccDefinition_init(d, kw) ==
    LET Kwargs3(s3) ==
            IF ~Ok(s3) THEN s3
            ELSE IF /\ kw.num_orbits_to_exclude_before_merger # NoOrbits
                    /\ kw.num_orbits_to_exclude_before_merger < 0
            THEN Raise(Assign(s3, {"spline_kwargs", "extra_kwargs"}),
                       ErrNegativeOrbits)
            ELSE Assign(s3, {"spline_kwargs", "extra_kwargs",
                             "extrema_finding_kwargs",
                             "available_averaging_methods"})
        Zeroecc(s2) ==
            Kwargs3(IF d.has_zeroecc THEN compute_res_amp_and_omega22(d, s2)
                    ELSE s2)
        Derived(s1) ==
            Zeroecc(Assign([s1 EXCEPT !.t_merger = s1.t[d.peak]],
                           {"hlm", "h22", "amp22", "t_merger", "phase22",
                            "omega22", "ecc_for_checks", "ecc_interp",
                            "decc_dt_for_checks"}))
        Uniform(s0) ==
            IF ~AllClose(Diff(s0.t), Diff(s0.t)[1])
            THEN Raise(s0, ErrNonUniform)
            ELSE Derived(s0)
    IN Uniform(Assign([Unconstructed EXCEPT !.t = d.t],
                      {"dataDict", "recognized_dataDict_keys", "t", "t_diff"}))

\* a time array from its first time and its steps
RECURSIVE FromSteps(_, _)
FromSteps(first, steps) ==
    IF steps = <<>> THEN <<first>>
    ELSE <<first>> \o FromSteps(first + Head(steps), Tail(steps))

\* steps equal to Dt, within the tolerance of it, and beyond
StepChoices == {Dt - 4, Dt, Dt + 2, Dt + 4}

RawTimes == {FromSteps(0, steps) : steps \in [1..NSteps -> StepChoices]}

\* companion time arrays of NSteps or NSteps + 1 steps: uniform, with one
\* step within the tolerance, with one step beyond it
RawTimesZeroecc ==
    {FromSteps(0, [j \in 1..n |-> IF j = 2 THEN Dt + e ELSE Dt]) :
        n \in {NSteps, NSteps + 1}, e \in {0, 2, 4}}

\* no companion: the keys "hlm_zeroecc" and "t_zeroecc" are absent
RawData ==
    {[t |-> tt, peak |-> Len(tt) - 1, has_zeroecc |-> FALSE,
      t_zeroecc |-> <<>>, peak_zeroecc |-> 0] : tt \in RawTimes}
    \cup {[t |-> tt, peak |-> Len(tt) - 1, has_zeroecc |-> TRUE,
           t_zeroecc |-> tz, peak_zeroecc |-> pz] :
             tt \in RawTimes, tz \in RawTimesZeroecc, pz \in 2..(NSteps + 1)}

InitRaw ==
    /\ dataDict \in RawData
    /\ extra_kwargs \in {DefaultKwargs,
                         [DefaultKwargs EXCEPT
                             !.num_orbits_to_exclude_before_merger = -2]}
    /\ self = Unconstructed
    /\ Constructed

\* eccDefinition(dataDict, extra_kwargs=extra_kwargs)
Construct ==
    /\ self = Unconstructed
    /\ self' = eccDefinition_init(dataDict, extra_kwargs)
    /\ UNCHANGED <<dataDict, extra_kwargs, call, result, ncalls>>

SpecInit == InitRaw /\ [][Construct]_vars

(***************************************************************************)
(* SpecMethod: the first call on an instance whose omega22_averaging_method *)
(* is or is not one of the available ones.                                 *)
(***************************************************************************)
\* a value of omega22_averaging_method that is not a key of
\* available_averaging_methods
UnknownMethod == "unknown_method"

InitMethod ==
    /\ dataDict \in [profile : {"chirp", "eccentric"},
                     t0 : {0}, t_merger : {TStep * (NSamples - 1)},
                     has_zeroecc : {FALSE},
                     maxima : {Periodic(0), Periodic(1)},
                     minima : {Periodic(0), Periodic(1)}]
    /\ dataDict.maxima # dataDict.minima
    /\ extra_kwargs \in
           [num_orbits_to_exclude_before_merger : {NoOrbits},
            omega22_averaging_method : {"mean_motion", UnknownMethod},
            treat_mid_points_between_pericenters_as_apocenters : BOOLEAN,
            debug : {FALSE}]
    /\ \E spline_kwargs \in SplineKwargs : self = NewInstance(spline_kwargs)
    /\ Constructed

SpecMethod == InitMethod /\ [][NextFirst]_vars

(***************************************************************************)
(* SpecMid: the first call on an instance that takes the midpoints of the  *)
(* pericenters as apocenters, for every pericenter array a finder may      *)
(* return.                                                                 *)
(***************************************************************************)
InitMid ==
    /\ dataDict \in [profile : {"eccentric"}, t0 : {0},
                     t_merger : {TStep * (NSamples - 1)},
                     has_zeroecc : {FALSE},
                     maxima : ExtremaArrays,
                     minima : {Periodic(1)}]
    /\ extra_kwargs \in
           [num_orbits_to_exclude_before_merger : {NoOrbits, 1},
            omega22_averaging_method : {"mean_of_extrema_interpolants"},
            treat_mid_points_between_pericenters_as_apocenters : {TRUE},
            debug : {FALSE}]
    /\ \E spline_kwargs \in SplineKwargs : self = NewInstance(spline_kwargs)
    /\ Constructed

SpecMid == InitMid /\ [][NextFirst]_vars

(***************************************************************************)
(* SpecShift: the first call on an instance whose time array starts at any *)
(* of the origins of the model, with the merger at either of the last two  *)
(* samples.                                                                *)
(***************************************************************************)
\* the times t[0] of the model
TimeOrigins == {0, -7, 20}

\* d with every time moved by c
Translated(d, c) == [d EXCEPT !.t0 = @ + c, !.t_merger = @ + c]

\* an argument with every element moved by c
ShiftArg(arg, c) == [arg EXCEPT !.v = [j \in 1..Len(arg.v) |-> arg.v[j] + c]]

InitShift ==
    /\ \E d \in [profile : {"chirp", "eccentric"}, t0 : {0},
                 t_merger : {TStep * (NSamples - 1), TStep * (NSamples - 2)},
                 has_zeroecc : {TRUE},
                 maxima : {Periodic(0), Periodic(1)},
                 minima : {Periodic(0), Periodic(1)}] :
           /\ d.maxima # d.minima
           /\ \E c \in TimeOrigins : dataDict = Translated(d, c)
    /\ extra_kwargs \in
           [num_orbits_to_exclude_before_merger : {NoOrbits, 1},
            omega22_averaging_method : Methods,
            treat_mid_points_between_pericenters_as_apocenters : {FALSE},
            debug : {FALSE}]
    /\ \E spline_kwargs \in SplineKwargs : self = NewInstance(spline_kwargs)
    /\ Constructed

\* reference times are given on the time axis of the instance
NextShift ==
    /\ ncalls = 0
    /\ \/ \E tref_in \in TrefArgs :
              MeasureEcc(ShiftArg(tref_in, dataDict.t0), NoArg)
       \/ \E fref_in \in FrefArgs : MeasureEcc(NoArg, fref_in)

SpecShift == InitShift /\ [][NextShift]_vars

(***************************************************************************)
(* SpecEcc: the first call on an instance with the pericenters at the      *)
(* maxima or at the minima of the frequency, on a signal of constant or of *)
(* growing frequency.                                                      *)
(***************************************************************************)
InitEcc ==
    /\ dataDict \in [profile : {"linear", "chirp", "eccentric"}, t0 : {0},
                     t_merger : {TStep * (NSamples - 1)},
                     has_zeroecc : {FALSE},
                     maxima : {Periodic(0), Periodic(1), <<0, 3, 6>>},
                     minima : {Periodic(0), Periodic(1), <<1, 4, 7>>}]
    /\ Disjoint(dataDict.maxima, dataDict.minima)
    /\ extra_kwargs \in
           [num_orbits_to_exclude_before_merger : {NoOrbits},
            omega22_averaging_method : {"mean_of_extrema_interpolants"},
            treat_mid_points_between_pericenters_as_apocenters : {FALSE},
            debug : {FALSE}]
    /\ \E spline_kwargs \in SplineKwargs : self = NewInstance(spline_kwargs)
    /\ Constructed

\* reference times on and between the samples
EccTimes ==
    {TStep \div 2, TStep * 2, TStep * 4 + 1, TStep * 5, TStep * 6 + 1}

\* reference frequencies times 2 pi, in the unit of omega22
EccFreqs == {6 * PiU * 5, 6 * PiU * 6, 6 * PiU * 7}

NextEcc ==
    /\ ncalls = 0
    /\ \/ \E x \in EccTimes : MeasureEcc(ScalarArg(x), NoArg)
       \/ \E v \in RefArrays(EccTimes) : MeasureEcc(ArrayArg(v), NoArg)
       \/ \E f \in EccFreqs : MeasureEcc(NoArg, ScalarArg(f))
       \/ \E v \in RefArrays(EccFreqs) : MeasureEcc(NoArg, ArrayArg(v))

SpecEcc == InitEcc /\ [][NextEcc]_vars

(***************************************************************************)
(* SpecExclude: the first call on an instance that excludes up to three    *)
(* orbits before the merger.                                               *)
(***************************************************************************)
InitExclude ==
    /\ dataDict \in [profile : {"linear", "chirp", "eccentric"}, t0 : {0},
                     t_merger : {TStep * (NSamples - 1)},
                     has_zeroecc : {FALSE},
                     maxima : {Periodic(0), Periodic(1)},
                     minima : {Periodic(0), Periodic(1)}]
    /\ dataDict.maxima # dataDict.minima
    /\ extra_kwargs \in
           [num_orbits_to_exclude_before_merger : {NoOrbits, 1, 2, 3},
            omega22_averaging_method : {"mean_of_extrema_interpolants"},
            treat_mid_points_between_pericenters_as_apocenters : {FALSE},
            debug : {FALSE}]
    /\ \E spline_kwargs \in SplineKwargs : self = NewInstance(spline_kwargs)
    /\ Constructed

SpecExclude == InitExclude /\ [][NextFirst]_vars

(***************************************************************************)
(* SpecMotion: the first call on an instance that uses mean_motion, for    *)
(* any extrema a finder may return.                                        *)
(***************************************************************************)
\* the minima of a finder that missed the one at sample 2
MissedMinimum == <<0, 4, 6>>

InitMotion ==
    /\ dataDict \in [profile : {"linear", "eccentric", "uneven"}, t0 : {0},
                     t_merger : {TStep * (NSamples - 1)},
                     has_zeroecc : {FALSE},
                     maxima : ExtremaArrays,
                     minima : ExtremaArrays \cup {MissedMinimum}]
    /\ Disjoint(dataDict.maxima, dataDict.minima)
    /\ extra_kwargs =
           [DefaultKwargs EXCEPT
               !.num_orbits_to_exclude_before_merger = NoOrbits,
               !.omega22_averaging_method = "mean_motion"]
    /\ self = NewInstance([k |-> 1])
    /\ Constructed

SpecMotion == InitMotion /\ [][NextFirst]_vars

(***************************************************************************)
(* SpecBounds: the first call on an instance with any of the averaging     *)
(* methods, for any extrema a finder may return.                           *)
(***************************************************************************)
InitBounds ==
    /\ dataDict \in [profile : {"chirp", "eccentric"}, t0 : {0},
                     t_merger : {TStep * (NSamples - 1)},
                     has_zeroecc : {TRUE},
                     maxima : ExtremaArrays, minima : ExtremaArrays]
    /\ Disjoint(dataDict.maxima, dataDict.minima)
    /\ extra_kwargs \in
           [num_orbits_to_exclude_before_merger : {NoOrbits},
            omega22_averaging_method : Methods,
            treat_mid_points_between_pericenters_as_apocenters : {FALSE},
            debug : {FALSE}]
    /\ self = NewInstance([k |-> 1])
    /\ Constructed

SpecBounds == InitBounds /\ [][NextFirst]_vars

(***************************************************************************)
(* SpecAlternate: the first call on an instance whose finder may return    *)
(* the same sample as a maximum and as a minimum.                          *)
(***************************************************************************)
InitAlternate ==
    /\ dataDict \in [profile : {"eccentric"}, t0 : {0},
                     t_merger : {TStep * (NSamples - 1)},
                     has_zeroecc : {FALSE},
                     maxima : ExtremaArrays, minima : ExtremaArrays]
    /\ extra_kwargs =
           [DefaultKwargs EXCEPT
               !.num_orbits_to_exclude_before_merger = NoOrbits,
               !.omega22_averaging_method = "mean_of_extrema_interpolants",
               !.debug = FALSE]
    /\ self = NewInstance([k |-> 1])
    /\ Constructed

SpecAlternate == InitAlternate /\ [][NextFirst]_vars

(***************************************************************************)
(* SpecSeparation: the first call on an instance whose finder may have     *)
(* picked up a spurious maximum next to a true one.                        *)
(***************************************************************************)
SpuriousMaximum == <<2, 4, 5, 7>>

InitSeparation ==
    /\ dataDict \in [profile : {"linear", "chirp", "uneven"}, t0 : {0},
                     t_merger : {TStep * (NSamples - 1)},
                     has_zeroecc : {FALSE},
                     maxima : ExtremaArrays \cup {SpuriousMaximum},
                     minima : {Periodic(0), Periodic(1), <<0, 3, 6>>}]
    /\ Disjoint(dataDict.maxima, dataDict.minima)
    /\ extra_kwargs =
           [DefaultKwargs EXCEPT
               !.num_orbits_to_exclude_before_merger = NoOrbits,
               !.omega22_averaging_method = "mean_of_extrema_interpolants",
               !.debug = FALSE]
    /\ self = NewInstance([k |-> 1])
    /\ Constructed

SpecSeparation == InitSeparation /\ [][NextFirst]_vars

(***************************************************************************)
(* SpecCache: calls of measure_ecc and of the diagnostic methods, in any    *)
(* order, on one instance.                                                 *)
(***************************************************************************)
InitCache ==
    /\ dataDict \in [profile : {"linear", "eccentric"},
                     t0 : {0}, t_merger : {TStep * (NSamples - 1)},
                     has_zeroecc : {FALSE},
                     maxima : {Periodic(0), Periodic(1)},
                     minima : {Periodic(0), Periodic(1)}]
    /\ dataDict.maxima # dataDict.minima
    /\ extra_kwargs \in
           [num_orbits_to_exclude_before_merger : {NoOrbits},
            omega22_averaging_method : {"mean_of_extrema_interpolants"},
            treat_mid_points_between_pericenters_as_apocenters : {FALSE},
            debug : BOOLEAN]
    /\ \E spline_kwargs \in SplineKwargs : self = NewInstance(spline_kwargs)
    /\ Constructed

\* a diagnostic method called by the user leaves the instance s; the
\* exception and the warnings of the last measure_ecc stay on record
AfterDiagnostic(s) ==
    /\ self' = [s EXCEPT !.exc = self.exc, !.warns = self.warns]
    /\ ncalls' = ncalls + 1
    /\ UNCHANGED <<dataDict, extra_kwargs, call, result>>

\* derivative_of_eccentricity(q, n), once measure_ecc has assigned the window
DerivativeOfEccentricity(q, n) ==
    /\ self.t_for_checks # <<>>
    /\ AfterDiagnostic(
           derivative_of_eccentricity([self EXCEPT !.exc = ""], q, n).s)

\* check_monotonicity_and_convexity(), once measure_ecc has assigned the
\* window
CheckMonotonicity ==
    /\ self.t_for_checks # <<>>
    /\ AfterDiagnostic(
           check_monotonicity_and_convexity([self EXCEPT !.exc = ""], FALSE))

NextCache ==
    /\ ncalls < MaxCalls + 1
    /\ \/ \E tref_in \in SeqTrefArgs : MeasureEcc(tref_in, NoArg)
       \/ \E q \in {<<0>>, <<TStep * 2>>, <<TStep * 2, TStep * 3>>} :
              \E n \in {1, 2} : DerivativeOfEccentricity(q, n)
       \/ CheckMonotonicity

SpecCache == InitCache /\ [][NextCache]_vars

(***************************************************************************)
(* Properties of measure_ecc.  A time x is bounded when a pericenter lies  *)
(* at or before it and another one strictly after it.                      *)
(***************************************************************************)
Called == ncalls > 0

TrefCall == Called /\ call.tref_in.given /\ ~call.fref_in.given

FrefCall == Called /\ call.fref_in.given /\ ~call.tref_in.given

BothOrNeither == Called /\ call.tref_in.given = call.fref_in.given

Succeeded == Called /\ result.exc = ""

\* the argument that was supplied
Supplied == IF call.tref_in.given THEN call.tref_in ELSE call.fref_in

\* a fresh instance at line 442 of measure_ecc: extrema, window and frequency
\* bounds are assigned, or the exception that prevented it is raised
Prepared(d, kw) ==
    LET Window(s1) == IF Ok(s1) THEN MeasureWindow(d, kw, s1) ELSE s1
    IN Window(MeasureExtrema(d, kw, NewInstance(self.spline_kwargs)))

\* what the first call measure_ecc(tref_in, fref_in) on a fresh instance
\* returns
FirstCall(d, kw, tref_in, fref_in) ==
    Returned(measure_ecc(d, kw, NewInstance(self.spline_kwargs),
                         tref_in, fref_in),
             fref_in)

InWindow(v) == SelectSeq(v, LAMBDA x : self.tmin <= x /\ x < self.tmax)

InBand(v) == SelectSeq(v, LAMBDA f : self.fref_min <= f /\ f < self.fref_max)

PericenterAtOrBefore(x) ==
    \E k \in 1..Len(self.t_pericenters) : self.t_pericenters[k] <= x

PericenterAfter(x) ==
    \E k \in 1..Len(self.t_pericenters) : self.t_pericenters[k] > x

\* C1: with tref_in given, tmin is the later of the first pericenter and first
\* apocenter times, tmax the earlier of the last ones, and tref_out is
\* exactly the elements t of tref_in with tmin <= t < tmax, in input order; a
\* time equal to tmax is never in it, the call fails when it is empty, and a
\* call that returns returns it with one eccentricity and one mean anomaly
\* for each of its elements.
C1_ReferenceWindow ==
    (TrefCall /\ Ok(Prepared(dataDict, extra_kwargs))) =>
        /\ self.tmin \in {t(dataDict, self.pericenters_location[1]),
                          t(dataDict, self.apocenters_location[1])}
        /\ self.tmin >= t(dataDict, self.pericenters_location[1])
        /\ self.tmin >= t(dataDict, self.apocenters_location[1])
        /\ self.tmax \in {t(dataDict, Last(self.pericenters_location)),
                          t(dataDict, Last(self.apocenters_location))}
        /\ self.tmax <= t(dataDict, Last(self.pericenters_location))
        /\ self.tmax <= t(dataDict, Last(self.apocenters_location))
        /\ self.tref_out.v = InWindow(call.tref_in.v)
        /\ \A j \in 1..Len(self.tref_out.v) : self.tref_out.v[j] # self.tmax
        /\ InWindow(call.tref_in.v) = <<>> => result.exc # ""
        /\ result.exc = "" =>
            /\ result.ref = self.tref_out
            /\ Len(result.ecc.v) = Len(result.ref.v)
            /\ Len(result.mean_ano.v) = Len(result.ref.v)
            /\ \A j \in 1..Len(result.ref.v) :
                   result.ecc.v[j] =
                       EccOf(Eval(self.omega22_pericenters_interp,
                                  result.ref.v[j]),
                             Eval(self.omega22_apocenters_interp,
                                  result.ref.v[j]))

\* an array holding tmax and a time inside the window: the call succeeds and
\* returns fewer elements than it was given
C1_Witness ==
    /\ TrefCall
    /\ call.tref_in.ndim = 1
    /\ result.exc = ""
    /\ \E j \in 1..Len(call.tref_in.v) : call.tref_in.v[j] = self.tmax
    /\ Len(result.ref.v) < Len(call.tref_in.v)

\* C2: for every resolved reference time t the mean anomaly returned is
\* 2 pi (t - t_last) / (t_next - t_last), with t_last the latest pericenter
\* time <= t and t_next the pericenter following it; it lies in [0, 2 pi) and
\* is 0 exactly when t is a pericenter time.  The mean anomaly is the
\* fraction <<num, den>> of 2 pi.
C2_MeanAnomaly ==
    Succeeded =>
        \A j \in 1..Len(self.tref_out.v) :
            /\ \E k \in 1..(Len(self.t_pericenters) - 1) :
                   /\ self.t_pericenters[k] <= self.tref_out.v[j]
                   /\ self.tref_out.v[j] < self.t_pericenters[k + 1]
                   /\ result.mean_ano.v[j][1]
                          * (self.t_pericenters[k + 1] - self.t_pericenters[k])
                      = result.mean_ano.v[j][2]
                          * (self.tref_out.v[j] - self.t_pericenters[k])
            /\ 0 <= result.mean_ano.v[j][1]
            /\ result.mean_ano.v[j][1] < result.mean_ano.v[j][2]
            /\ (result.mean_ano.v[j][1] = 0)
                   <=> (\E k \in 1..Len(self.t_pericenters) :
                           self.t_pericenters[k] = self.tref_out.v[j])

\* a reference time at a pericenter other than the first is resolved, with
\* mean anomaly 0
C2_Witness ==
    /\ Succeeded
    /\ \E j \in 1..Len(self.tref_out.v) :
           /\ \E k \in 2..Len(self.t_pericenters) :
                  self.t_pericenters[k] = self.tref_out.v[j]
           /\ result.mean_ano.v[j] = <<0, 1>>

\* C3: a call with both tref_in and fref_in, or with neither, raises the
\* "Exactly one of tref_in and fref_in should be specified" error whatever the
\* signal and the configuration.
C3_ExactlyOne == BothOrNeither => result.exc = ErrExactlyOne

\* C4 as stated: when no element of tref_in is in [tmin, tmax) the call fails
\* with "earlier than tmin" whenever tref_in[0] < tmin, with "later than
\* tmax" when the last time is later than tmax, and with the generic
\* "tref_out is empty" otherwise.
C4_EarlierFirst ==
    (/\ TrefCall
     /\ Ok(Prepared(dataDict, extra_kwargs))
     /\ InWindow(call.tref_in.v) = <<>>) =>
        result.exc = IF call.tref_in.v[1] < self.tmin THEN ErrEarlierThanTmin
                     ELSE IF Last(call.tref_in.v) > self.tmax
                     THEN ErrLaterThanTmax
                     ELSE ErrTrefOutEmpty

\* C4: when no element of tref_in is in [tmin, tmax) the call fails with
\* "later than tmax" whenever tref_in[-1] > tmax, otherwise with "earlier
\* than tmin" when tref_in[0] < tmin, and with the generic "tref_out is
\* empty" otherwise.
C4_LaterFirst ==
    (/\ TrefCall
     /\ Ok(Prepared(dataDict, extra_kwargs))
     /\ InWindow(call.tref_in.v) = <<>>) =>
        result.exc = IF Last(call.tref_in.v) > self.tmax THEN ErrLaterThanTmax
                     ELSE IF call.tref_in.v[1] < self.tmin
                     THEN ErrEarlierThanTmin
                     ELSE ErrTrefOutEmpty

\* times that begin before tmin and end after tmax, none inside the window:
\* the call reports them as later than tmax
C4_Witness ==
    /\ TrefCall
    /\ result.exc = ErrLaterThanTmax
    /\ call.tref_in.v[1] < self.tmin
    /\ Last(call.tref_in.v) > self.tmax

\* the extrema that the merger exclusion leaves of the found ones
Surviving(found) ==
    IF extra_kwargs.num_orbits_to_exclude_before_merger = NoOrbits THEN found
    ELSE SelectSeq(found,
                   LAMBDA i : i <= self.idx_num_orbit_earlier_than_merger)

\* C5: interp_extrema raises "Sufficient number of <type> are not found"
\* exactly when fewer than 2 extrema of the type survive the merger exclusion;
\* otherwise it returns the surviving indices, increasing, and the
\* interpolant through exactly those.  With apocenters taken as midpoints of
\* pericenters the error is raised exactly when fewer than 3 pericenters
\* survived.
C5_SufficientExtrema ==
    Called =>
        /\ (self.exc = ErrTooFewMaxima)
               <=> (Len(Surviving(dataDict.maxima)) < 2)
        /\ Len(Surviving(dataDict.maxima)) >= 2 =>
            /\ self.pericenters_location = Surviving(dataDict.maxima)
            /\ StrictlyIncreasing(self.pericenters_location)
            /\ self.omega22_pericenters_interp =
                   ExtremaSpline(dataDict, Surviving(dataDict.maxima),
                                 self.spline_kwargs.k)
            /\ IF extra_kwargs.treat_mid_points_between_pericenters_as_apocenters
               THEN /\ (self.exc = ErrTooFewApocenters)
                           <=> (Len(self.pericenters_location) < 3)
                    /\ Len(self.pericenters_location) >= 3 =>
                        /\ self.apocenters_location =
                               MidLocations(self.pericenters_location)
                        /\ self.omega22_apocenters_interp =
                               ExtremaSpline(dataDict,
                                             self.apocenters_location,
                                             self.spline_kwargs.k)
               ELSE /\ (self.exc = ErrTooFewMinima)
                           <=> (Len(Surviving(dataDict.minima)) < 2)
                    /\ Len(Surviving(dataDict.minima)) >= 2 =>
                        /\ self.apocenters_location =
                               Surviving(dataDict.minima)
                        /\ StrictlyIncreasing(self.apocenters_location)
                        /\ self.omega22_apocenters_interp =
                               ExtremaSpline(dataDict,
                                             Surviving(dataDict.minima),
                                             self.spline_kwargs.k)

\* C6 as stated: every resolved reference time has a pericenter strictly
\* before it and a later pericenter at or after it.
C6_StrictlyBefore ==
    Succeeded =>
        \A j \in 1..Len(self.tref_out.v) :
            /\ \E k \in 1..Len(self.t_pericenters) :
                   self.t_pericenters[k] < self.tref_out.v[j]
            /\ \E k \in 1..Len(self.t_pericenters) :
                   self.t_pericenters[k] >= self.tref_out.v[j]

\* C6: every resolved reference time has a pericenter at or before it and a
\* later pericenter strictly after it; the check of measure_ecc, applied to
\* the supplied times as they are, raises "Reference time must be within two
\* pericenters" exactly when the first of them precedes the first pericenter
\* or the last one is at or after the last pericenter.
C6_BoundingPericenters ==
    /\ Succeeded =>
           \A j \in 1..Len(self.tref_out.v) :
               /\ PericenterAtOrBefore(self.tref_out.v[j])
               /\ PericenterAfter(self.tref_out.v[j])
    /\ (TrefCall /\ Ok(Prepared(dataDict, extra_kwargs))) =>
           ((MeasureChecks(dataDict,
                           [self EXCEPT !.exc = "",
                                        !.tref_out = Arr(call.tref_in.v)]).exc
                 = ErrTwoPericenters)
            <=> (\/ ~PericenterAtOrBefore(call.tref_in.v[1])
                 \/ ~PericenterAfter(Last(call.tref_in.v))))

\* the first pericenter time itself is resolved, and the call returns
C6_Witness ==
    /\ TrefCall
    /\ result.exc = ""
    /\ \E j \in 1..Len(self.tref_out.v) :
           self.tref_out.v[j] = self.t_pericenters[1]

\* the supplied argument as the one-element array of its value
AsArray(arg) == IF arg.given THEN ArrayArg(arg.v) ELSE arg

\* C7: a scalar reference time or frequency t0 returns scalars, each equal to
\* the single element of the arrays that measure_ecc([t0]) returns, and fails
\* as measure_ecc([t0]) fails; an array input returns arrays, a one-element
\* array one-element arrays.
C7_ScalarArray ==
    /\ (Called /\ ~BothOrNeither /\ Supplied.ndim = 0) =>
           LET Same(arr) ==
                   /\ result.exc = arr.exc
                   /\ result.exc = "" =>
                       /\ result.ref.ndim = 0
                       /\ result.ecc.ndim = 0
                       /\ result.mean_ano.ndim = 0
                       /\ arr.ref.ndim = 1 /\ Len(arr.ref.v) = 1
                       /\ arr.ecc.ndim = 1 /\ Len(arr.ecc.v) = 1
                       /\ arr.mean_ano.ndim = 1 /\ Len(arr.mean_ano.v) = 1
                       /\ result.ref.v[1] = arr.ref.v[1]
                       /\ result.ecc.v[1] = arr.ecc.v[1]
                       /\ result.mean_ano.v[1] = arr.mean_ano.v[1]
           IN Same(FirstCall(dataDict, extra_kwargs,
                             AsArray(call.tref_in), AsArray(call.fref_in)))
    /\ (Succeeded /\ Supplied.ndim = 1) =>
           /\ result.ref.ndim = 1
           /\ result.ecc.ndim = 1
           /\ result.mean_ano.ndim = 1
           /\ Len(Supplied.v) = 1 =>
               /\ Len(result.ref.v) = 1
               /\ Len(result.ecc.v) = 1
               /\ Len(result.mean_ano.v) = 1

\* a scalar reference frequency is measured and scalars are returned
C7_Witness ==
    /\ FrefCall
    /\ call.fref_in.ndim = 0
    /\ result.exc = ""
    /\ result.ref.ndim = 0
    /\ result.ecc.ndim = 0

\* C8: whatever calls were made on the instance before, measure_ecc(x)
\* returns what the first call measure_ecc(x) on a fresh instance with the
\* same data and options returns, or fails with the same error.
C8_Pure ==
    Called => result = FirstCall(dataDict, extra_kwargs,
                                 call.tref_in, call.fref_in)

\* a second call, with reference times, succeeds on an instance that still
\* holds the fref_out of an earlier call with frequencies
C8_Witness ==
    /\ ncalls >= 2
    /\ TrefCall
    /\ result.exc = ""
    /\ self.fref_out # NoValue

\* C9: with fref_in given, the call returns exactly the elements f of fref_in
\* with fref_min <= f < fref_max, in input order; when there is none it fails
\* with "earlier than minimum available frequency" when fref_in[0] is below
\* fref_min, otherwise with "later than maximum available frequency" when
\* fref_in[-1] is above fref_max, and with the generic "fref_out is empty"
\* otherwise.
C9_FrequencyBand ==
    (FrefCall /\ Ok(Prepared(dataDict, extra_kwargs))) =>
        IF InBand(call.fref_in.v) = <<>>
        THEN result.exc = IF call.fref_in.v[1] < self.fref_min
                          THEN ErrFrefEarlier
                          ELSE IF Last(call.fref_in.v) > self.fref_max
                          THEN ErrFrefLater
                          ELSE ErrFrefOutEmpty
        ELSE /\ result.exc \notin {ErrFrefEarlier, ErrFrefLater,
                                   ErrFrefOutEmpty}
             /\ result.exc = "" => result.ref.v = InBand(call.fref_in.v)

\* an array with a frequency inside the band and one outside: the call
\* succeeds and returns fewer frequencies than it was given
C9_Witness ==
    /\ FrefCall
    /\ call.fref_in.ndim = 1
    /\ result.exc = ""
    /\ Len(result.ref.v) < Len(call.fref_in.v)

\* C10: for instances that differ only in omega22_averaging_method, a call
\* measure_ecc(tref_in=x) has the same outcome: the same tref_out,
\* eccentricity and mean anomaly, or the same error.
C10_MethodIrrelevant ==
    TrefCall =>
        \A method \in Methods :
            FirstCall(dataDict,
                      [extra_kwargs EXCEPT !.omega22_averaging_method = method],
                      call.tref_in, call.fref_in) = result

(***************************************************************************)
(* Properties of the construction.                                         *)
(***************************************************************************)
\* __init__ has run, to its end or to an exception
Built == self # Unconstructed

\* some step of q differs from its first step by more than the tolerance
NonUniform(q) ==
    \E j \in 1..(Len(q) - 1) :
        Abs((q[j + 1] - q[j]) - (q[2] - q[1])) * RtolInv
            > AtolU * RtolInv + Abs(q[2] - q[1])

\* C11: construction fails with the "must have uniform time steps" error
\* exactly when some step of t differs from its first step by more than the
\* tolerance, and then nothing is derived from t; with t uniform and a
\* companion supplied it fails with the error for t_zeroecc exactly when
\* t_zeroecc is non-uniform in the same sense.
C11_UniformTimeSteps ==
    Built =>
        /\ (self.exc = ErrNonUniform) <=> NonUniform(dataDict.t)
        /\ NonUniform(dataDict.t) =>
               self.assigned \cap {"hlm", "h22", "amp22", "t_merger",
                                   "phase22", "omega22"} = {}
        /\ (self.exc = ErrNonUniformZeroecc)
               <=> (/\ ~NonUniform(dataDict.t)
                    /\ dataDict.has_zeroecc
                    /\ NonUniform(dataDict.t_zeroecc))

\* a primary grid with unequal steps within the tolerance is accepted, and
\* the companion grid with a step beyond it is rejected
C11_Witness ==
    /\ Built
    /\ self.exc = ErrNonUniformZeroecc
    /\ \E j \in 1..Len(Diff(dataDict.t)) :
           Diff(dataDict.t)[j] # Diff(dataDict.t)[1]

\* the sample time x lies in the time span of the shifted companion
InCompanionSpan(x) ==
    /\ self.t_zeroecc_shifted[1] <= x
    /\ x <= Last(self.t_zeroecc_shifted)

\* C12: with a companion on a uniform grid, construction raises "Length of
\* zeroecc waveform must be >= the length of the eccentric waveform" exactly
\* when some sample time of the primary lies outside the time span of the
\* merger-aligned companion, so that after a successful construction every
\* primary sample time lies inside that span.
C12_NoExtrapolation ==
    (/\ Built
     /\ dataDict.has_zeroecc
     /\ self.exc \notin {ErrNonUniform, ErrNonUniformZeroecc}) =>
        /\ (self.exc = ErrZeroeccShort)
               <=> (\E j \in 1..Len(self.t) : ~InCompanionSpan(self.t[j]))
        /\ self.exc = "" =>
               \A j \in 1..Len(self.t) : InCompanionSpan(self.t[j])

(***************************************************************************)
(* Properties of the averaging methods.                                    *)
(***************************************************************************)
\* C13: with an omega22_averaging_method that is not one of the three
\* available ones, measure_ecc fails with the error "Omega22 averaging method
\* <m> does not exist. Must be one of [...]".
C13_UnknownMethod ==
    (Called /\ extra_kwargs.omega22_averaging_method \notin Methods) =>
        result.exc = ErrNoMethod

(***************************************************************************)
(* Properties of the validators.                                           *)
(***************************************************************************)
\* C14: no validator aborts a measurement: after a call that returned,
\* check_monotonicity_and_convexity runs to its end with check_convexity
\* False and True, and a call has the same outcome with the diagnostic
\* checks (debug) on and off.
C14_ValidatorsNeverAbort ==
    /\ Succeeded =>
           \A check_convexity \in BOOLEAN :
               Ok(check_monotonicity_and_convexity(self, check_convexity))
    /\ Called =>
           FirstCall(dataDict, [extra_kwargs EXCEPT !.debug = ~@],
                     call.tref_in, call.fref_in) = result

(***************************************************************************)
(* Properties of the apocenters taken from the pericenters.                *)
(***************************************************************************)
\* the apocenters were assigned by a call that takes them from the
\* pericenters
MidApocenters ==
    /\ Called
    /\ extra_kwargs.treat_mid_points_between_pericenters_as_apocenters
    /\ self.apocenters_location # <<>>

\* index arrays the finder could have returned for the minima
OtherMinima == {<<>>, Periodic(0), <<1, 4>>}

AtOrigin ==
    measure_ecc(Translated(dataDict, - dataDict.t0), extra_kwargs,
                NewInstance(self.spline_kwargs),
                ShiftArg(call.tref_in, - dataDict.t0), call.fref_in)

\* C16: moving the time array, the merger time and tref_in by the same
\* constant leaves the outcome of the call, the extrema indices, the
\* exclusion boundary index, the eccentricity, the mean anomaly and the
\* returned frequencies unchanged, and moves tmin, tmax and tref_out by that
\* constant.
C16_TranslationInvariant ==
    Called =>
        LET Same(s0) ==
                /\ self.exc = s0.exc
                /\ self.pericenters_location = s0.pericenters_location
                /\ self.apocenters_location = s0.apocenters_location
                /\ self.idx_num_orbit_earlier_than_merger
                       = s0.idx_num_orbit_earlier_than_merger
                /\ self.ecc_ref = s0.ecc_ref
                /\ self.mean_ano_ref = s0.mean_ano_ref
                /\ self.fref_out = s0.fref_out
                /\ self.t_pericenters # <<>> =>
                       /\ self.tmin = s0.tmin + dataDict.t0
                       /\ self.tmax = s0.tmax + dataDict.t0
                /\ self.tref_out = ShiftArg(s0.tref_out, dataDict.t0)
        IN Same(AtOrigin)

\* a measurement at reference times on a time array that does not start at
\* 0, with the last pericenter dropped by the merger exclusion
C16_Witness ==
    /\ TrefCall
    /\ result.exc = ""
    /\ dataDict.t0 # 0
    /\ extra_kwargs.num_orbits_to_exclude_before_merger # NoOrbits
    /\ Len(self.pericenters_location) < Len(dataDict.maxima)

(***************************************************************************)
(* SpecRound: on an instance that uses mean_motion, one call with the      *)
(* reference frequency that omega22_average has at a time tstar.           *)
(***************************************************************************)
InitRound ==
    /\ dataDict \in [profile : {"chirp", "eccentric"}, t0 : {0},
                     t_merger : {TStep * (NSamples - 1)},
                     has_zeroecc : BOOLEAN,
                     maxima : {Periodic(0), Periodic(1)},
                     minima : {Periodic(0), Periodic(1)}]
    /\ dataDict.maxima # dataDict.minima
    /\ extra_kwargs \in
           [num_orbits_to_exclude_before_merger : {NoOrbits},
            omega22_averaging_method : {"mean_motion"},
            treat_mid_points_between_pericenters_as_apocenters : {FALSE},
            debug : BOOLEAN]
    /\ \E spline_kwargs \in SplineKwargs : self = NewInstance(spline_kwargs)
    /\ Constructed

\* omega22_average(tt) of the configured method, on the instance s
AverageAt(s, tt) ==
    omega22_average_at(dataDict, s, extra_kwargs.omega22_averaging_method,
                       <<tt>>)

\* measure_ecc(fref_in=omega22_average(tstar) / (2 pi))
RoundTrip(tstar) ==
    /\ Ok(Prepared(dataDict, extra_kwargs))
    /\ AverageAt(Prepared(dataDict, extra_kwargs), tstar).exc = ""
    /\ MeasureEcc(NoArg,
                  ScalarArg(AverageAt(Prepared(dataDict, extra_kwargs),
                                      tstar).v[1]))

NextRound ==
    /\ ncalls = 0
    /\ \E tstar \in RefTimes : RoundTrip(tstar)

SpecRound == InitRound /\ [][NextRound]_vars

\* omega22_average on the samples of the averaging sub-window is strictly
\* increasing
AverageIncreasing ==
    LET OnGrid(avg) == avg.exc = "" /\ ~NotIncreasing(avg.v)
    IN OnGrid(omega22_average_at(
                  dataDict, self, extra_kwargs.omega22_averaging_method,
                  TimesWithin(dataDict, self.tmin_for_fref,
                              self.tmax_for_fref)))

\* C17: with mean_motion and omega22_average strictly increasing, a call with
\* the reference frequency omega22_average(tstar) / (2 pi) of a time tstar
\* inside the averaging sub-window resolves it to a reference time within one
\* sample step of tstar.
C17_RoundTrip ==
    (FrefCall /\ AverageIncreasing) =>
        \A tstar \in RefTimes :
            (/\ self.tmin_for_fref < tstar
             /\ tstar < self.tmax_for_fref
             /\ AverageAt(self, tstar) = Values(call.fref_in.v)) =>
                /\ Len(self.tref_in) = 1
                /\ Abs(self.tref_in[1] - tstar) <= TStep

(***************************************************************************)
(* Properties of the eccentricity.                                         *)
(***************************************************************************)
\* the two interpolants at the j-th resolved reference time
PericenterOmega(j) == Eval(self.omega22_pericenters_interp, self.tref_out.v[j])

ApocenterOmega(j) == Eval(self.omega22_apocenters_interp, self.tref_out.v[j])

\* C18: the eccentricity returned for a reference time is computed from the
\* values of the two interpolants at that time, element by element; it is 0
\* exactly when the two agree and negative exactly when the pericenter
\* interpolant is below the apocenter interpolant, and the negative
\* eccentricity warning is emitted exactly when some element is negative.
C18_Eccentricity ==
    Succeeded =>
        /\ \A j \in 1..Len(self.tref_out.v) :
               /\ PericenterOmega(j) > 0
               /\ ApocenterOmega(j) > 0
               /\ self.ecc_ref.v[j]
                      = EccOf(PericenterOmega(j), ApocenterOmega(j))
               /\ compute_eccentricity(self, <<self.tref_out.v[j]>>)
                      = Values(<<self.ecc_ref.v[j]>>)
               /\ (EccSign(self.ecc_ref.v[j]) = 0)
                      <=> (PericenterOmega(j) = ApocenterOmega(j))
               /\ (EccSign(self.ecc_ref.v[j]) < 0)
                      <=> (PericenterOmega(j) < ApocenterOmega(j))
        /\ (WarnNegativeEcc \in self.warns)
               <=> (\E j \in 1..Len(self.tref_out.v) :
                       PericenterOmega(j) < ApocenterOmega(j))

\* an array of two reference times is measured, with a negative eccentricity
\* at one of them
C18_Witness ==
    /\ Succeeded
    /\ call.tref_in.ndim = 1
    /\ Len(self.tref_out.v) = 2
    /\ PericenterOmega(1) < ApocenterOmega(1)
    /\ PericenterOmega(2) > ApocenterOmega(2)

(***************************************************************************)
(* Properties of the exclusion of the extrema near the merger.             *)
(***************************************************************************)
\* the phase by which sample i is behind the sample nearest the merger
PhaseBehindMerger(i) ==
    phase22(dataDict, NearestTime(dataDict, dataDict.t_merger))
        - phase22(dataDict, i)

\* the phase of the orbits to exclude
ExcludedPhase == 4 * PiU * extra_kwargs.num_orbits_to_exclude_before_merger

\* the samples at least the excluded phase behind the merger
SamplesBehind == {i \in Idx : PhaseBehindMerger(i) >= ExcludedPhase}

\* C19: with a number of orbits to exclude, the boundary of interp_extrema is
\* the last sample at least 4 pi N of phase behind the sample nearest the
\* merger, the kept pericenters are the found maxima up to the boundary, and
\* none of them is closer than N orbits to the merger; with None every found
\* maximum is kept.
C19_ExclusionBoundary ==
    (ncalls = 1 /\ self.pericenters_location # <<>>) =>
        IF extra_kwargs.num_orbits_to_exclude_before_merger # NoOrbits
        THEN /\ SamplesBehind # {}
             /\ self.idx_num_orbit_earlier_than_merger
                    = CHOOSE i \in SamplesBehind :
                          \A j \in SamplesBehind : j <= i
             /\ self.pericenters_location
                    = UpTo(find_extrema(dataDict, "maxima"),
                           self.idx_num_orbit_earlier_than_merger)
             /\ \A j \in 1..Len(self.pericenters_location) :
                    PhaseBehindMerger(self.pericenters_location[j])
                        >= ExcludedPhase
        ELSE self.pericenters_location = find_extrema(dataDict, "maxima")

(***************************************************************************)
(* Properties of the reference frequencies.                                *)
(***************************************************************************)
\* the elements of the reference frequencies of the call that pass the
\* filter of get_fref_out
AcceptedFrequencies == FrefInBounds(self, call.fref_in.v)

\* C20: with omega22_average strictly increasing, every reference frequency
\* that passes the filter fref_min <= f < fref_max is resolved: the inversion
\* does not have to extrapolate, and the time it yields for each accepted
\* frequency is in [tmin_for_fref, tmax_for_fref) and in [tmin, tmax).
C20_AcceptedResolved ==
    (FrefCall /\ AcceptedFrequencies # <<>> /\ AverageIncreasing) =>
        /\ self.exc # ErrExtrapolate
        /\ self.fref_out.v = AcceptedFrequencies
        /\ Len(self.tref_in) = Len(AcceptedFrequencies)
        /\ \A j \in 1..Len(self.tref_in) :
               /\ self.tmin_for_fref <= self.tref_in[j]
               /\ self.tref_in[j] < self.tmax_for_fref
               /\ self.tmin <= self.tref_in[j]
               /\ self.tref_in[j] < self.tmax

(***************************************************************************)
(* Properties of mean_motion.                                              *)
(***************************************************************************)
\* both interpolants through the extrema were built
ExtremaFound ==
    /\ Called
    /\ Len(self.pericenters_location) >= 2
    /\ Len(self.apocenters_location) >= 2

\* the orbit averages between consecutive extrema at loc, as the pairs
\* <<phase difference, time difference>>
OrbitAverages(loc) ==
    [n \in 1..(Len(loc) - 1) |->
        <<phase22(dataDict, loc[n + 1]) - phase22(dataDict, loc[n]),
          t(dataDict, loc[n + 1]) - t(dataDict, loc[n])>>]

\* the quotients a[1] / a[2] are strictly increasing along q
QuotientsIncreasing(q) ==
    \A n \in 1..(Len(q) - 1) : q[n][1] * q[n + 1][2] < q[n + 1][1] * q[n][2]

\* the orbit averages in the order of the midpoint times of their intervals
MergedAverages ==
    Take(OrbitAverages(self.apocenters_location)
             \o OrbitAverages(self.pericenters_location),
         self.sorted_idx_mean_motion)

\* C21: under mean_motion the call aborts with the 'not strictly
\* monotonically increasing' error exactly when the orbit averages are not
\* strictly increasing along the pericenters or along the apocenters, the
\* pericenters being checked first; the merged sequence plays no part.
C21_MeanMotionMonotonic ==
    (ExtremaFound /\ extra_kwargs.omega22_averaging_method = "mean_motion") =>
        /\ (self.exc = ErrMeanMotionPeri)
               <=> ~QuotientsIncreasing(
                       OrbitAverages(self.pericenters_location))
        /\ (self.exc = ErrMeanMotionApo)
               <=> /\ QuotientsIncreasing(
                          OrbitAverages(self.pericenters_location))
                   /\ ~QuotientsIncreasing(
                          OrbitAverages(self.apocenters_location))

\* the averages increase along the pericenters but not along the apocenters,
\* and the call aborted
C21_Witness ==
    /\ ExtremaFound
    /\ self.exc = ErrMeanMotionApo
    /\ Len(self.pericenters_location) >= 3
    /\ QuotientsIncreasing(OrbitAverages(self.pericenters_location))

\* get_fref_bounds assigned the midpoint times of mean_motion
MidpointsAssigned ==
    /\ ExtremaFound
    /\ extra_kwargs.omega22_averaging_method = "mean_motion"
    /\ self.t_average_mean_motion # <<>>

\* the midpoint times before sorting: those of the apocenters, then those of
\* the pericenters
Midpoints ==
    MidTimes(dataDict, self.apocenters_location)
        \o MidTimes(dataDict, self.pericenters_location)

\* exactly one apocenter lies strictly between two consecutive pericenters
\* and exactly one pericenter between two consecutive apocenters
StrictlyAlternating ==
    LET OneBetween(a, b) ==
            \A j \in 1..(Len(a) - 1) :
                Cardinality({k \in 1..Len(b) :
                                a[j] < b[k] /\ b[k] < a[j + 1]}) = 1
    IN /\ OneBetween(self.pericenters_location, self.apocenters_location)
       /\ OneBetween(self.apocenters_location, self.pericenters_location)

\* sorted_idx is a permutation that sorts the midpoint times, and wherever the
\* spline of mean_motion can be built on the sorted times, its value at the
\* midpoint of an interval between extrema is the orbit average over that
\* interval
SortedAndPaired ==
    /\ {self.sorted_idx_mean_motion[j] + 1 :
            j \in 1..Len(self.sorted_idx_mean_motion)} = 1..Len(Midpoints)
    /\ Len(self.sorted_idx_mean_motion) = Len(Midpoints)
    /\ self.t_average_mean_motion
           = Take(Midpoints, self.sorted_idx_mean_motion)
    /\ \A j \in 1..(Len(Midpoints) - 1) :
           self.t_average_mean_motion[j] <= self.t_average_mean_motion[j + 1]
    /\ (/\ StrictlyIncreasing(self.t_average_mean_motion)
        /\ Len(Midpoints) > 3
        /\ self.exc \notin {ErrMeanMotionPeri, ErrMeanMotionApo}) =>
           \A j \in 1..Len(Midpoints) :
               compute_mean_motion_at_extrema(dataDict, self, <<Midpoints[j]>>)
                   = Values(<<MeanMotions(dataDict, self)[j]>>)

\* C22 as stated: the midpoint times of consecutive pericenters and of
\* consecutive apocenters are merged into one strictly increasing array, and
\* the orbit averages are permuted with the same permutation.
C22_MergedStrictlyIncreasing ==
    MidpointsAssigned =>
        /\ StrictlyIncreasing(self.t_average_mean_motion)
        /\ SortedAndPaired

\* C22, amended: the merged midpoint times are sorted, strictly increasing
\* when pericenters and apocenters strictly alternate, and the orbit averages
\* are permuted with the same permutation; two intervals with the same
\* midpoint leave the array with a repeated time.
C22_MergedSorted ==
    MidpointsAssigned =>
        /\ SortedAndPaired
        /\ StrictlyAlternating
               => StrictlyIncreasing(self.t_average_mean_motion)

\* a call returned with five midpoint times, the first of them of the
\* pericenters
C22_Witness ==
    /\ MidpointsAssigned
    /\ Succeeded
    /\ Len(Midpoints) > 4
    /\ self.sorted_idx_mean_motion[1] >= Len(self.apocenters_location) - 1

(***************************************************************************)
(* Properties of the bounds of the reference frequency.                    *)
(***************************************************************************)
\* C23: for mean_motion tmin_for_fref is the later of the first midpoint
\* time and tmin and tmax_for_fref the earlier of the last midpoint time and
\* tmax, for the other methods they are tmin and tmax; when pericenters and
\* apocenters strictly alternate, tmin <= tmin_for_fref < tmax_for_fref <=
\* tmax and both lie within the midpoint times, so the averaged frequency is
\* not extrapolated at either of them.
C23_FrefWindow ==
    ExtremaFound =>
        IF extra_kwargs.omega22_averaging_method = "mean_motion"
        THEN /\ self.tmin_for_fref = Max2(SeqMin(Midpoints), self.tmin)
             /\ self.tmax_for_fref = Min2(SeqMax(Midpoints), self.tmax)
             /\ StrictlyAlternating =>
                    /\ self.tmin <= self.tmin_for_fref
                    /\ self.tmin_for_fref < self.tmax_for_fref
                    /\ self.tmax_for_fref <= self.tmax
                    /\ SeqMin(Midpoints) <= self.tmin_for_fref
                    /\ self.tmax_for_fref <= SeqMax(Midpoints)
                    /\ omega22_average_at(dataDict, self, "mean_motion",
                                          <<self.tmin_for_fref,
                                            self.tmax_for_fref>>).exc
                           # ErrExtrapolate
                    /\ TrefCall => self.exc # ErrExtrapolate
        ELSE /\ self.tmin_for_fref = self.tmin
             /\ self.tmax_for_fref = self.tmax

\* a call with mean_motion on strictly alternating extrema returned, with a
\* window of the reference frequency narrower than [tmin, tmax] at both ends
C23_Witness ==
    /\ Succeeded
    /\ extra_kwargs.omega22_averaging_method = "mean_motion"
    /\ StrictlyAlternating
    /\ self.tmin < self.tmin_for_fref
    /\ self.tmax_for_fref < self.tmax

(***************************************************************************)
(* Properties of the validators.                                           *)
(***************************************************************************)
\* the alternation check warned
AlternationWarned ==
    self.warns \cap {WarnCountsDiffer, WarnNotAlternate} # {}

\* C24: the alternation check warns exactly when pericenters and apocenters
\* do not strictly alternate in time: when their counts differ by 2 or more
\* or two neighbours of the interleaved array are not strictly increasing in
\* time, a pericenter and an apocenter at the same sample included.
C24_AlternationWarning ==
    ExtremaFound => (AlternationWarned <=> ~StrictlyAlternating)

\* the separation check ran on both kinds of extrema
SeparationChecked ==
    /\ ExtremaFound
    /\ self.orb_phase_diff_at_pericenters # <<>>
    /\ self.orb_phase_diff_at_apocenters # <<>>

\* twice the orbital phase from the n-th to the (n+1)-th extremum of loc
PhaseStep(loc, n) == phase22(dataDict, loc[n + 1]) - phase22(dataDict, loc[n])

\* C25: for each kind of extrema, with d the orbital phase differences
\* between consecutive extrema, the separation check warns 'too close'
\* exactly when some d < pi, 'too far' exactly when some d[i+1] / d[i] > 1.5,
\* and 'closer to pi than 2 pi' exactly when some d is nearer to pi than to
\* 2 pi; the times of a too-far warning are those of the later extremum of
\* the interval that is too long, and 2 extrema give no too-far warning.
C25_ExtremaSeparation ==
    SeparationChecked =>
        LET Kind(loc, extrema_type) ==
                /\ (WarnTooClose(extrema_type) \in self.warns)
                       <=> (\E n \in 1..(Len(loc) - 1) :
                               PhaseStep(loc, n) < 2 * PiU)
                /\ (WarnTooFar(extrema_type) \in self.warns)
                       <=> (\E n \in 1..(Len(loc) - 2) :
                               2 * PhaseStep(loc, n + 1)
                                   > 3 * PhaseStep(loc, n))
                /\ (WarnTooFar(extrema_type) \in self.warns)
                       <=> (TooFarTimes(dataDict, loc) # <<>>)
                /\ \A j \in 1..Len(TooFarTimes(dataDict, loc)) :
                       \E n \in 1..(Len(loc) - 2) :
                           /\ TooFarTimes(dataDict, loc)[j]
                                  = t(dataDict, loc[n + 2])
                           /\ 2 * PhaseStep(loc, n + 1)
                                  > 3 * PhaseStep(loc, n)
                /\ Len(loc) = 2 => WarnTooFar(extrema_type) \notin self.warns
                /\ \A n \in 1..(Len(loc) - 1) : PhaseStep(loc, n) > 0
            NearerToPi(loc) ==
                \E n \in 1..(Len(loc) - 1) :
                    Abs(PhaseStep(loc, n) - 2 * PiU)
                        < Abs(PhaseStep(loc, n) - 4 * PiU)
        IN /\ Kind(self.pericenters_location, "pericenters")
           /\ Kind(self.apocenters_location, "apocenters")
           /\ (WarnCloserToPi \in self.warns)
                  <=> (NearerToPi(self.pericenters_location)
                       \/ NearerToPi(self.apocenters_location))

\* a call warned that two pericenters are too close and two are too far,
\* no two apocenters being too close
C25_Witness ==
    /\ SeparationChecked
    /\ WarnTooClose("pericenters") \in self.warns
    /\ WarnTooFar("pericenters") \in self.warns
    /\ WarnCloserToPi \in self.warns
    /\ WarnTooClose("apocenters") \notin self.warns
    /\ Len(TooFarTimes(dataDict, self.pericenters_location))
           < Len(self.pericenters_location) - 2

\* C26: after a call with the diagnostic checks on, the 'non monotonic'
\* warning is in the record exactly when the first derivative of the
\* eccentricity is non-negative (>= 0) at some time of the check grid, and
\* the validator with check_convexity enabled runs to its end.
C26_MonotonicityWarning ==
    (Succeeded /\ extra_kwargs.debug) =>
        /\ (WarnNonMonotonic \in self.warns)
               <=> (\E j \in 1..Len(self.decc_dt_for_checks) :
                       self.decc_dt_for_checks[j] >= 0)
        /\ Ok(check_monotonicity_and_convexity(self, TRUE))

(***************************************************************************)
(* Properties of the results for reference frequencies.                    *)
(***************************************************************************)
\* the instance at line 463 of the call, had the inversion of line 1002
\* resolved the accepted frequencies to the times tr
ResolvedTo(tr) ==
    [self EXCEPT !.exc = "", !.tref_in = tr,
                 !.fref_out = Arr(AcceptedFrequencies)]

\* times at and next to the two ends of [tmin, tmax)
WindowEnds == {self.tmin - 1, self.tmin, self.tmax - 1, self.tmax}

\* C27: a call with reference frequencies that returns returns fref_out, the
\* eccentricity and the mean anomaly with the same length, element i of the
\* last two being measured at the time resolved for fref_out[i]; resolved
\* times that are not all in [tmin, tmax) end the call with the
\* length-mismatch error.
C27_FrequencyAlignment ==
    (FrefCall /\ AcceptedFrequencies # <<>>) =>
        /\ Succeeded =>
               /\ result.ref = self.fref_out
               /\ self.fref_out.v = AcceptedFrequencies
               /\ Len(result.ecc.v) = Len(result.ref.v)
               /\ Len(result.mean_ano.v) = Len(result.ref.v)
               /\ \A i \in 1..Len(result.ref.v) :
                      /\ Values(<<self.tref_in[i]>>)
                             = EvalChecked(
                                   Spline(self.omega22_average,
                                          self.t_for_omega22_average, 3),
                                   <<result.ref.v[i]>>)
                      /\ Values(<<result.ecc.v[i]>>)
                             = compute_eccentricity(self, <<self.tref_in[i]>>)
                      /\ Values(<<result.mean_ano.v[i]>>)
                             = compute_mean_ano(self, <<self.tref_in[i]>>)
        /\ \A tr \in [1..Len(AcceptedFrequencies) -> WindowEnds] :
               LET Filtered(s1) ==
                       IF \E i \in 1..Len(tr) :
                              tr[i] < self.tmin \/ tr[i] >= self.tmax
                       THEN s1.exc = ErrLength
                       ELSE Ok(s1) /\ s1.tref_out.v = tr
               IN Filtered(MeasureFilter(dataDict, ResolvedTo(tr),
                                         call.fref_in))

\* a call with an array of two reference frequencies returned, with different
\* eccentricities for the two
C27_Witness ==
    /\ FrefCall
    /\ Succeeded
    /\ call.fref_in.ndim = 1
    /\ Len(result.ref.v) = 2
    /\ result.ecc.v[1] # result.ecc.v[2]
    /\ self.tref_in[1] # self.tref_in[2]

(***************************************************************************)
(* Properties of the pericenters around a reference time.                  *)
(***************************************************************************)
\* C28: with strictly increasing pericenter indices every element of
\* tref_out is at or after the first pericenter and before the last one, as
\* the filter to [tmin, tmax) leaves it; the call never ends with 'Reference
\* time must be within two pericenters', and compute_mean_ano finds the
\* pericenter after each element, whatever the order of tref_in.
C28_WithinPericenters ==
    (ExtremaFound /\ StrictlyIncreasing(self.pericenters_location)) =>
        /\ self.exc # ErrTwoPericenters
        /\ \A j \in 1..Len(self.tref_out.v) :
               /\ self.tmin <= self.tref_out.v[j]
               /\ self.tref_out.v[j] < self.tmax
               /\ self.t_pericenters[1] <= self.tref_out.v[j]
               /\ self.tref_out.v[j] < Last(self.t_pericenters)
               /\ ~MeanAnoIndexError(self, self.tref_out.v[j])
        /\ self.tref_out.v # <<>> => self.exc # ErrIndex

\* a call with reference times that are not in increasing order returned
\* them all
C28_Witness ==
    /\ Succeeded
    /\ TrefCall
    /\ Len(self.tref_out.v) = 2
    /\ self.tref_out.v[1] > self.tref_out.v[2]
    /\ self.tmax < Last(self.t_pericenters)

(***************************************************************************)
(* Properties of the cached diagnostic quantities.                         *)
(***************************************************************************)
\* the cached quantities are those a fresh computation on the current
\* t_for_checks gives
CachesCurrent ==
    /\ ncalls = 0 => self.cached = {}
    /\ "ecc_for_checks" \in self.cached =>
           /\ Len(self.ecc_for_checks) = Len(self.t_for_checks)
           /\ Values(self.ecc_for_checks)
                  = compute_eccentricity(self, self.t_for_checks)
    /\ "ecc_interp" \in self.cached =>
           /\ "ecc_for_checks" \in self.cached
           /\ self.ecc_interp
                  = Spline(self.t_for_checks, self.ecc_for_checks, 3)
    /\ "decc_dt_for_checks" \in self.cached =>
           /\ "ecc_interp" \in self.cached
           /\ Len(self.decc_dt_for_checks) = Len(self.t_for_checks)
           /\ self.decc_dt_for_checks
                  = derivative_of_eccentricity(
                        [self EXCEPT !.exc = "", !.cached = {}],
                        self.t_for_checks, 1).v

\* a cached quantity is never computed again
CachesKept ==
    /\ self.cached \subseteq self'.cached
    /\ "ecc_for_checks" \in self.cached
           => self'.ecc_for_checks = self.ecc_for_checks
    /\ "ecc_interp" \in self.cached => self'.ecc_interp = self.ecc_interp
    /\ "decc_dt_for_checks" \in self.cached
           => self'.decc_dt_for_checks = self.decc_dt_for_checks

\* C29: ecc_for_checks, ecc_interp and decc_dt_for_checks are None on a new
\* instance, are computed at most once, and after any calls of measure_ecc
\* and of the diagnostic methods they are what a fresh computation on the
\* current t_for_checks gives.
C29_CachesConsistent == [][CachesKept]_vars /\ []CachesCurrent

\* a third call on an instance that holds the three quantities, the first
\* time derivative computed by a diagnostic call after a measurement without
\* the diagnostic checks
C29_Witness ==
    /\ ncalls = MaxCalls + 1
    /\ ~extra_kwargs.debug
    /\ TrefCall
    /\ self.cached
           = {"ecc_for_checks", "ecc_interp", "decc_dt_for_checks"}
    /\ Len(self.t_for_checks) > 3

(***************************************************************************)
(* Properties of the order of the validators within measure_ecc.           *)
(***************************************************************************)
\* the exceptions of lines 444-495: the arguments, the reference
\* frequencies and the resolved reference times
ResolutionErrors ==
    {ErrExactlyOne, ErrFrefEarlier, ErrFrefLater, ErrFrefOutEmpty,
     ErrLength, ErrLaterThanTmax, ErrEarlierThanTmin, ErrTrefOutEmpty}

FailedInResolution == Called /\ result.exc \in ResolutionErrors

SeparationWarned ==
    self.warns \cap {WarnTooClose("pericenters"), WarnTooClose("apocenters"),
                     WarnTooFar("pericenters"), WarnTooFar("apocenters"),
                     WarnCloserToPi} # {}

MonotonicityWarned == self.warns \cap {WarnNonMonotonic, WarnConcave} # {}

\* C30 as stated: a call that fails during reference resolution has run no
\* validator, so none of the warnings of the alternation, separation and
\* monotonicity checks was emitted.
C30_ValidatorsLast ==
    FailedInResolution =>
        ~AlternationWarned /\ ~SeparationWarned /\ ~MonotonicityWarned

\* C30 amended: the alternation check runs on the extrema before the
\* references are resolved, so a call that fails during resolution has run
\* it and no other validator; the separation check runs once the resolved
\* times are known to be non-empty and the monotonicity check, with debug
\* only, after eccentricity and mean anomaly have been evaluated.
C30_ValidatorOrder ==
    /\ FailedInResolution =>
           /\ AlternationWarned <=>
                  check_pericenters_and_apocenters_appear_alternately(
                      dataDict, [self EXCEPT !.warns = {}]).warns # {}
           /\ ~SeparationWarned /\ ~MonotonicityWarned
           /\ self.orb_phase_diff_at_pericenters = <<>>
           /\ self.orb_phase_diff_at_apocenters = <<>>
           /\ self.cached = {}
    /\ Succeeded =>
           /\ SeparationChecked
           /\ self.ecc_ref.v # <<>> /\ self.mean_ano_ref.v # <<>>
           /\ extra_kwargs.debug <=> "decc_dt_for_checks" \in self.cached

\* a call that failed on its reference times after the alternation check
\* had warned
C30_Witness ==
    /\ FailedInResolution
    /\ result.exc # ErrExactlyOne
    /\ AlternationWarned

====
